---------------------------- MODULE Spec2Model ----------------------------
(***************************************************************************)
(* LLM response cache of ePub_Translator:                                  *)
(*   backend/app/core/cache/llm_cache.py       CacheEntry, LLMCache,       *)
(*                                              get_cache                  *)
(*   backend/app/core/cache/cached_gateway.py  CachedLLMGateway            *)
(*                                                                         *)
(* Python values are records [t, s, n]: a type tag, a string payload and   *)
(* an integer payload.  JSON text is a record [j, s, n] of the same shape. *)
(* A Python dict with string keys is a sequence of <<name, value>> pairs   *)
(* in insertion order (keyword arguments, request parameters) or a set of  *)
(* such pairs (a response, whose order nothing reads).                     *)
(***************************************************************************)
EXTENDS Integers, Sequences, FiniteSets, TLC

VARIABLES
    files,      \* responses_dir: cache key -> content of {key}.json
    now,        \* time.time(), in whole seconds
    last,       \* the store / gateway operation that ran last, with its result
    kq,         \* the last key derivation (pure-function specification)
    cache,      \* the LLMCache instance: its default TTL
    th,         \* per thread: the operation in progress and its locals
    ghost,      \* per key: deleted by a completed delete with no set begun since
    dirs,       \* whether the directory responses_dir exists
    upstream,   \* the wrapped gateway when it is deterministic: bundle -> answer
    registry,   \* _cache_instances: project id -> its LLMCache instance
    others      \* responses_dir of the second project: cache key -> content

vars ==
    <<files, now, last, kq, cache, th, ghost, dirs, upstream, registry, others>>

-----------------------------------------------------------------------------
(* Bounds of the model *)

MaxTime == 2
MaxExtras == 2
MaxAccess == 3

-----------------------------------------------------------------------------
(* Python values and their JSON text *)

PyNone == [t |-> "none", s |-> "", n |-> 0]
PyInt(i) == [t |-> "int", s |-> "", n |-> i]
\* a float, held in tenths: PyFloat(7) is 0.7
PyFloat(tenths) == [t |-> "float", s |-> "", n |-> tenths]
PyStr(str) == [t |-> "str", s |-> str, n |-> 0]
PyList(str) == [t |-> "list", s |-> str, n |-> 0]
PyTuple(str) == [t |-> "tuple", s |-> str, n |-> 0]
PyDict(str) == [t |-> "dict", s |-> str, n |-> 0]
\* an object json has no encoder for (a provider SDK response object)
PyObject(str) == [t |-> "object", s |-> str, n |-> 0]

\* bool(v), as `or` and `if` evaluate it
Truthy(v) ==
    CASE v.t = "none" -> FALSE
      [] v.t \in {"int", "float"} -> v.n # 0
      [] v.t \in {"str", "list", "tuple", "dict"} -> v.s # ""
      [] OTHER -> TRUE

TypeError == [j |-> "TypeError", s |-> "", n |-> 0]

\* json.dumps of one value: a tuple is written as an array, an object the
\* encoder does not know raises TypeError
JsonDumps(v) ==
    CASE v.t = "none" -> [j |-> "null", s |-> "", n |-> 0]
      [] v.t = "int" -> [j |-> "int", s |-> "", n |-> v.n]
      [] v.t = "float" -> [j |-> "real", s |-> "", n |-> v.n]
      [] v.t = "str" -> [j |-> "string", s |-> v.s, n |-> 0]
      [] v.t \in {"list", "tuple"} -> [j |-> "array", s |-> v.s, n |-> 0]
      [] v.t = "dict" -> [j |-> "object", s |-> v.s, n |-> 0]
      [] OTHER -> TypeError

\* json.load of one value
JsonLoads(x) ==
    CASE x.j = "null" -> PyNone
      [] x.j = "int" -> PyInt(x.n)
      [] x.j = "real" -> PyFloat(x.n)
      [] x.j = "string" -> PyStr(x.s)
      [] x.j = "array" -> PyList(x.s)
      [] OTHER -> PyDict(x.s)

\* a dict held as a set of <<name, value>> pairs
DumpsDict(d) == {<<p[1], JsonDumps(p[2])>> : p \in d}
LoadsDict(d) == {<<p[1], JsonLoads(p[2])>> : p \in d}
Serializable(d) == \A p \in d : JsonDumps(p[2]) # TypeError

\* a dict held as a sequence of <<name, value>> pairs
DumpsItems(items) ==
    [i \in 1..Len(items) |-> <<items[i][1], JsonDumps(items[i][2])>>]
LoadsItems(items) ==
    [i \in 1..Len(items) |-> <<items[i][1], JsonLoads(items[i][2])>>]

Names(items) == {items[i][1] : i \in 1..Len(items)}
Lookup(items, name) ==
    LET i == CHOOSE i \in 1..Len(items) : items[i][1] = name IN items[i][2]
Without(items, name) == SelectSeq(items, LAMBDA p : p[1] # name)

-----------------------------------------------------------------------------
(* Key derivation *)

\* the parameter names the model uses, in the order sorted() puts them
SortedNames ==
    <<"max_tokens", "model", "prompt", "provider", "seed", "stop",
      "temperature", "ttl_seconds">>

\* json.dumps(params) without sort_keys: the pairs in insertion order
InsertionOrder(items) == items

\* json.dumps(params, sort_keys=True): the pairs ordered by name
SortKeys(items) ==
    LET present == SelectSeq(SortedNames, LAMBDA nm : nm \in Names(items))
    IN  [i \in 1..Len(present) |-> <<present[i], Lookup(items, present[i])>>]

\* hashlib.sha256(...).hexdigest(): modelled as collision-free
Sha256(text) == [sha256 |-> text]

\* the parameters hashed in insertion order
ComputeCacheKeyUnsorted(provider, model, prompt, temperature, kwargs) ==
    Sha256(InsertionOrder(DumpsItems(
        << <<"provider", PyStr(provider)>>, <<"model", PyStr(model)>>,
           <<"prompt", PyStr(prompt)>>, <<"temperature", temperature>> >>
        \o kwargs)))

ComputeCacheKey(provider, model, prompt, temperature, kwargs) ==
    Sha256(SortKeys(DumpsItems(
        << <<"provider", PyStr(provider)>>, <<"model", PyStr(model)>>,
           <<"prompt", PyStr(prompt)>>, <<"temperature", temperature>> >>
        \o kwargs)))

ComputePromptHash(prompt) == [sha256_16 |-> prompt]

\* Python's binding of a call get(provider, model, prompt, temperature,
\* **extras): every extra name lands in **kwargs
GetKwargs(extras) == extras

\* Python's binding of a call set(provider, model, prompt, response,
\* temperature, ttl_seconds=ttl, **extras): set declares a parameter named
\* ttl_seconds, so an extra of that name is bound to it, not to **kwargs
SetKwargs(extras) == Without(extras, "ttl_seconds")
SetTtlArg(ttl, extras) ==
    IF "ttl_seconds" \in Names(extras) THEN Lookup(extras, "ttl_seconds")
    ELSE ttl


-----------------------------------------------------------------------------
(* CacheEntry and the files of responses_dir *)

\* 30 days
DEFAULT_TTL_SECONDS == 30 * 24 * 60 * 60

\* ttl_seconds or self.ttl_seconds: the left operand if it is truthy
Or(a, b) == IF Truthy(a) THEN a ELSE b

\* LLMCache.__init__: self.ttl_seconds
InitTtl(ttl_seconds) == Or(ttl_seconds, PyInt(DEFAULT_TTL_SECONDS))

\* the LLMCache a CachedLLMGateway(gateway, project_id, enable_cache,
\* ttl_seconds) holds, with the gateway's _enable_cache
NewCache(ttl_seconds, enable_cache) ==
    [ttl_seconds |-> InitTtl(ttl_seconds), enable_cache |-> enable_cache]

\* an expiry clock that restarts on every access
IsExpiredSinceAccess(entry, t) ==
    IF entry.ttl_seconds.t = "none" THEN FALSE
    ELSE t - entry.accessed_at > entry.ttl_seconds.n

\* an entry that expires the second its age reaches the TTL
IsExpiredAtTtl(entry, t) ==
    IF entry.ttl_seconds.t = "none" THEN FALSE
    ELSE t - entry.created_at >= entry.ttl_seconds.n

IsExpired(entry, t) ==
    IF entry.ttl_seconds.t = "none" THEN FALSE
    ELSE t - entry.created_at > entry.ttl_seconds.n

\* an access that also restarts the entry's age
UpdateAccessTouchCreated(entry, t) ==
    [entry EXCEPT !.accessed_at = t, !.created_at = t,
                  !.access_count = entry.access_count + 1]

\* an access that stamps the time but does not count
UpdateAccessUncounted(entry, t) == [entry EXCEPT !.accessed_at = t]

UpdateAccess(entry, t) ==
    [entry EXCEPT !.accessed_at = t, !.access_count = entry.access_count + 1]

\* json.dump(entry.to_dict(), f): the file's content
ToDict(entry) ==
    [kind |-> "entry",
     data |-> [entry EXCEPT !.response = DumpsDict(entry.response),
                            !.ttl_seconds = JsonDumps(entry.ttl_seconds),
                            !.request_metadata =
                                DumpsItems(entry.request_metadata)]]

\* a file json.load rejects, size bytes long: emptied by open(path, "w"),
\* or cut short by a failed or unfinished write
Torn(size) == [kind |-> "badjson", size |-> size]
BadJson == Torn(0)

\* a file json.load accepts but CacheEntry(**data) does not: a JSON object
\* that lacks a field of CacheEntry ("missing") or carries a name CacheEntry
\* does not declare ("unknown"); cls(**data) raises TypeError
BadFields(why) == [kind |-> "badfields", why |-> why]

\* CacheEntry.from_dict(json.load(f)) of a file that holds an entry
FromDict(content) ==
    [content.data EXCEPT !.response = LoadsDict(content.data.response),
                         !.ttl_seconds = JsonLoads(content.data.ttl_seconds),
                         !.request_metadata =
                             LoadsItems(content.data.request_metadata)]

Exists(fs, key) == key \in DOMAIN fs
Unlink(fs, key) == [k \in DOMAIN fs \ {key} |-> fs[k]]
Write(fs, key, content) ==
    [k \in DOMAIN fs \cup {key} |-> IF k = key THEN content ELSE fs[k]]

\* what get returns: None, or the response dict
RetNone == [isNone |-> TRUE, value |-> {}]
RetDict(d) == [isNone |-> FALSE, value |-> d]

Outcome(fs, ret, exc) == [files |-> fs, ret |-> ret, exc |-> exc]

-----------------------------------------------------------------------------
(* LLMCache: each operation run without interruption.  An operation maps   *)
(* the files and the clock to the files it leaves, what it returns and the *)
(* exception it raises ("" for none).                                      *)

\* a get that falls back on any entry with the prompt's fingerprint when the
\* file of the key is missing
GetByPromptHash(fs, t, provider, model, prompt, temperature, kwargs) ==
    LET cache_key ==
            ComputeCacheKey(provider, model, prompt, temperature, kwargs)
        alike == {k \in DOMAIN fs :
                    /\ fs[k].kind = "entry"
                    /\ fs[k].data.prompt_hash = ComputePromptHash(prompt)}
        found == IF Exists(fs, cache_key) \/ alike = {} THEN cache_key
                 ELSE CHOOSE k \in alike : TRUE
    IN  IF ~Exists(fs, found) THEN Outcome(fs, RetNone, "")
        ELSE IF fs[found].kind # "entry"
        THEN Outcome(Unlink(fs, found), RetNone, "")
        ELSE LET loaded == FromDict(fs[found])
             IN  IF IsExpired(loaded, t)
                 THEN Outcome(Unlink(fs, found), RetNone, "")
                 ELSE LET entry == UpdateAccess(loaded, t)
                      IN  Outcome(Write(fs, found, ToDict(entry)),
                                  RetDict(entry.response), "")

Get(fs, t, provider, model, prompt, temperature, kwargs) ==
    LET cache_key ==
            ComputeCacheKey(provider, model, prompt, temperature, kwargs)
    IN  IF ~Exists(fs, cache_key) THEN Outcome(fs, RetNone, "")
        ELSE IF fs[cache_key].kind = "badjson"
        \* json.JSONDecodeError: the file is deleted
        THEN Outcome(Unlink(fs, cache_key), RetNone, "")
        ELSE IF fs[cache_key].kind = "badfields"
        \* TypeError of cls(**data): no except clause of get names it
        THEN Outcome(fs, RetNone, "TypeError")
        ELSE LET loaded == FromDict(fs[cache_key])
             IN  IF IsExpired(loaded, t)
                 THEN Outcome(Unlink(fs, cache_key), RetNone, "")
                 ELSE LET entry == UpdateAccess(loaded, t)
                      IN  Outcome(Write(fs, cache_key, ToDict(entry)),
                                  RetDict(entry.response), "")

\* an entry that starts with no access counted
NewEntryUncounted(selfTtl, t, provider, model, prompt, response, temperature, ttl_seconds, kwargs) ==
    [response |-> response,
     cache_key |->
         ComputeCacheKey(provider, model, prompt, temperature, kwargs),
     provider |-> provider,
     model |-> model,
     prompt_hash |-> ComputePromptHash(prompt),
     created_at |-> t,
     accessed_at |-> t,
     access_count |-> 0,
     ttl_seconds |-> Or(ttl_seconds, selfTtl),
     request_metadata |-> << <<"temperature", temperature>> >> \o kwargs]

\* the entry set builds
NewEntry(selfTtl, t, provider, model, prompt, response, temperature, ttl_seconds, kwargs) ==
    [response |-> response,
     cache_key |->
         ComputeCacheKey(provider, model, prompt, temperature, kwargs),
     provider |-> provider,
     model |-> model,
     prompt_hash |-> ComputePromptHash(prompt),
     created_at |-> t,
     accessed_at |-> t,
     access_count |-> 1,
     ttl_seconds |-> Or(ttl_seconds, selfTtl),
     request_metadata |-> << <<"temperature", temperature>> >> \o kwargs]

\* a store that keeps one entry: set drops every other file
SetSingleSlot(fs, selfTtl, t, provider, model, prompt, response, temperature, ttl_seconds, kwargs) ==
    LET entry == NewEntry(selfTtl, t, provider, model, prompt, response,
                          temperature, ttl_seconds, kwargs)
    IN  Outcome(Write(<<>>, entry.cache_key, ToDict(entry)),
                entry.cache_key, "")

\* open(cache_path, "w") empties the file before json.dump writes; a
\* response json cannot encode raises TypeError part-way through the dump
\* and leaves the file cut short
Set(fs, selfTtl, t, provider, model, prompt, response, temperature, ttl_seconds, kwargs) ==
    LET entry == NewEntry(selfTtl, t, provider, model, prompt, response,
                          temperature, ttl_seconds, kwargs)
    IN  IF Serializable(response)
        THEN Outcome(Write(fs, entry.cache_key, ToDict(entry)),
                     entry.cache_key, "")
        ELSE Outcome(Write(fs, entry.cache_key, BadJson),
                     entry.cache_key, "TypeError")

\* an invalidate that unlinks without looking first
InvalidateUnchecked(fs, cache_key) ==
    IF Exists(fs, cache_key)
    THEN Outcome(Unlink(fs, cache_key), TRUE, "")
    ELSE Outcome(fs, FALSE, "FileNotFoundError")

\* set when responses_dir may be gone: open(cache_path, "w") raises
\* FileNotFoundError, set makes no directory
SetAt(present, fs, selfTtl, t, provider, model, prompt, response, temperature, ttl_seconds, kwargs) ==
    IF present
    THEN Set(fs, selfTtl, t, provider, model, prompt, response, temperature,
             ttl_seconds, kwargs)
    ELSE Outcome(fs, ComputeCacheKey(provider, model, prompt, temperature,
                                     kwargs), "FileNotFoundError")

Invalidate(fs, cache_key) ==
    IF Exists(fs, cache_key)
    THEN Outcome(Unlink(fs, cache_key), TRUE, "")
    ELSE Outcome(fs, FALSE, "")

\* a clear that removes and counts only the files that parse
ClearAllParsable(fs) ==
    Outcome([k \in {x \in DOMAIN fs : fs[x].kind # "entry"} |-> fs[k]],
            Cardinality({x \in DOMAIN fs : fs[x].kind = "entry"}), "")

\* every *.json file of responses_dir is unlinked and counted
ClearAll(fs) == Outcome(<<>>, Cardinality(DOMAIN fs), "")

\* the files clear_expired unlinks
Swept(fs, t) ==
    {k \in DOMAIN fs :
        \/ fs[k].kind = "badjson"
        \/ fs[k].kind = "entry" /\ IsExpired(FromDict(fs[k]), t)}

\* clear_expired when every file parses into a CacheEntry or is not JSON
ClearExpired(fs, t) ==
    Outcome([k \in DOMAIN fs \ Swept(fs, t) |-> fs[k]],
            Cardinality(Swept(fs, t)), "")

\* clear_expired on any files: the TypeError of cls(**data) ends the scan at
\* the first file whose fields do not fit, after the files glob listed
\* before it were handled; glob lists in no particular order
ClearExpiredOutcomes(fs, t) ==
    IF \A k \in DOMAIN fs : fs[k].kind # "badfields"
    THEN {ClearExpired(fs, t)}
    ELSE {Outcome([k \in DOMAIN fs \ gone |-> fs[k]], 0, "TypeError") :
            gone \in SUBSET Swept(fs, t)}

\* the files get_stats counts: those that parse into a CacheEntry
Parsed(fs) == {k \in DOMAIN fs : fs[k].kind = "entry"}

RECURSIVE SumAccesses(_, _)
SumAccesses(fs, keys) ==
    IF keys = {} THEN 0
    ELSE LET k == CHOOSE x \in keys : TRUE
         IN  fs[k].data.access_count + SumAccesses(fs, keys \ {k})

NoStats ==
    [total_entries |-> 0, expired_entries |-> 0, active_entries |-> 0,
     total_accesses |-> 0, avg_accesses_per_entry |-> 0,
     oldest_entry_age_days |-> 0, newest_entry_age_days |-> 0]

\* round(p / q, digits) as the nearest multiple of 10^-digits, held as an
\* integer count of such multiples (scale = 10^digits); p >= 0, q > 0.  A
\* tie, which Python rounds to even, needs q >= 8 at scale 100.
Round(p, q, scale) == (2 * scale * p + q) \div (2 * q)

Min(S) == CHOOSE x \in S : \A y \in S : x <= y
Max(S) == CHOOSE x \in S : \A y \in S : x >= y

\* round((time.time() - created_at) / 86400, 1) if created_at else 0, in
\* tenths of a day; created_at is the oldest or newest of the entries, None
\* when there is none
AgeDays(created, t) ==
    IF created = {} THEN 0
    ELSE LET at == CHOOSE x \in created : TRUE
         IN  IF at = 0 THEN 0 ELSE Round(t - at, 86400, 10)

\* get_stats that reports every entry as active
GetStatsAllActive(fs, t) ==
    Outcome(fs,
        [NoStats EXCEPT !.total_entries = Cardinality(Parsed(fs)),
                        !.active_entries = Cardinality(Parsed(fs)),
                        !.total_accesses = SumAccesses(fs, Parsed(fs))],
        "")

\* get_stats that divides by the number of entries whatever it is
GetStatsDividing(fs, t) ==
    IF Parsed(fs) = {} THEN Outcome(fs, NoStats, "ZeroDivisionError")
    ELSE Outcome(fs,
            [NoStats EXCEPT !.total_entries = Cardinality(Parsed(fs)),
                            !.active_entries = Cardinality(Parsed(fs)),
                            !.total_accesses = SumAccesses(fs, Parsed(fs))],
            "")

\* get_stats: a file that is not JSON is passed over; the TypeError of
\* cls(**data) is not caught.  The sizes (total_size_bytes, total_size_mb)
\* are left out.  avg_accesses_per_entry is held in hundredths, the ages in
\* tenths of a day.
GetStats(fs, t) ==
    IF \E k \in DOMAIN fs : fs[k].kind = "badfields"
    THEN Outcome(fs, NoStats, "TypeError")
    ELSE LET expired ==
                {k \in Parsed(fs) : IsExpired(FromDict(fs[k]), t)}
             total_entries == Cardinality(Parsed(fs))
             total_accesses == SumAccesses(fs, Parsed(fs))
             created == {fs[k].data.created_at : k \in Parsed(fs)}
         IN  Outcome(fs,
                [total_entries |-> total_entries,
                 expired_entries |-> Cardinality(expired),
                 active_entries |-> total_entries - Cardinality(expired),
                 total_accesses |-> total_accesses,
                 avg_accesses_per_entry |->
                    IF total_entries > 0
                    THEN Round(total_accesses, total_entries, 100) ELSE 0,
                 oldest_entry_age_days |->
                    AgeDays(IF created = {} THEN {} ELSE {Min(created)}, t),
                 newest_entry_age_days |->
                    AgeDays(IF created = {} THEN {} ELSE {Max(created)}, t)],
                "")

-----------------------------------------------------------------------------
(* The callers' inputs *)

Request(provider, model, prompt, temperature, extras) ==
    [provider |-> provider, model |-> model, prompt |-> prompt,
     temperature |-> temperature, extras |-> extras]

R07 == Request("openai", "gpt-4o", "p1", PyFloat(7), <<>>)
R09 == Request("openai", "gpt-4o", "p1", PyFloat(9), <<>>)
\* R07 with an extension parameter that has the name of set's TTL parameter
R07x == Request("openai", "gpt-4o", "p1", PyFloat(7),
                << <<"ttl_seconds", PyInt(1)>> >>)

\* the requests the store's callers make
Requests == {R07, R09, R07x}

RespA == {<<"content", PyStr("A")>>}
RespTuple == {<<"content", PyStr("B")>>, <<"raw_response", PyTuple("x")>>}
RespObject == {<<"content", PyStr("A")>>, <<"raw_response", PyObject("sdk")>>}

\* the responses they store: JSON-native, holding a tuple, holding an object
\* json cannot encode
Responses == {RespA, RespTuple, RespObject}

TtlArgs == {PyNone, PyInt(1)}
CtorTtlArgs == {PyNone}

\* the calls of set: every response and TTL on R07, one call on each other
\* request, and one with a TTL of 0 seconds
SetCalls ==
    {[req |-> R07, response |-> r, ttl |-> ttl] :
        r \in Responses, ttl \in TtlArgs}
    \cup {[req |-> R07x, response |-> RespA, ttl |-> PyNone],
          [req |-> R09, response |-> RespA, ttl |-> PyNone],
          [req |-> R09, response |-> RespA, ttl |-> PyInt(0)]}

GetKey(req) ==
    ComputeCacheKey(req.provider, req.model, req.prompt, req.temperature,
                    GetKwargs(req.extras))
SetKey(req) ==
    ComputeCacheKey(req.provider, req.model, req.prompt, req.temperature,
                    SetKwargs(req.extras))

-----------------------------------------------------------------------------
(* What the last operation did *)

Absent == [kind |-> "absent"]
ContentAt(fs, key) == IF Exists(fs, key) THEN fs[key] ELSE Absent

NoReq == Request("", "", "", PyNone, <<>>)

\* what the wrapped gateway answers: a response, or an error it raises
NoResponse ==
    [content |-> "", provider |-> "", model |-> "", raw_response |-> PyNone,
     latency_ms |-> 0,
     usage |-> [prompt_tokens |-> 0, completion_tokens |-> 0,
                total_tokens |-> 0]]
NoUp == [ok |-> FALSE, response |-> NoResponse, error |-> ""]

NoOp ==
    [op |-> "none", req |-> NoReq, response |-> {}, ttl |-> PyNone,
     key |-> Sha256(<<>>), pre |-> Absent, removed |-> {}, changed |-> {},
     at |-> 0, ret |-> RetNone, exc |-> "", calls |-> 0, streams |-> 0,
     up |-> NoUp]

\* the keys whose file differs between fs and after
Changed(fs, after) ==
    {k \in DOMAIN fs \cup DOMAIN after : ContentAt(fs, k) # ContentAt(after, k)}

\* a store operation op ran at time t on the files fs and ended with
\* outcome out
Done(op, req, response, ttl, key, fs, t, out) ==
    [op |-> op, req |-> req, response |-> response, ttl |-> ttl, key |-> key,
     pre |-> ContentAt(fs, key), removed |-> DOMAIN fs \ DOMAIN out.files,
     changed |-> Changed(fs, out.files),
     at |-> t, ret |-> out.ret, exc |-> out.exc, calls |-> 0, streams |-> 0,
     up |-> NoUp]

NoThreads == <<>>
\* no deterministic gateway: the wrapped gateway answers as it likes
NoGateway == <<>>

\* the project ids; `files` is the responses_dir of the first, `others` that
\* of the second
Projects == {"pA", "pB"}
\* project_id not in _cache_instances
NoInstance == [id |-> 0, ttl_seconds |-> PyNone]
\* _cache_instances = {} at import
NoRegistry == [inst |-> [p \in Projects |-> NoInstance], made |-> 0]
NoKq == [op |-> "none"]

-----------------------------------------------------------------------------
(* Specification Spec: one store, its operations run one after another *)

Init ==
    /\ files = <<>>
    /\ now = 0
    /\ last = NoOp
    /\ kq = NoKq
    /\ \E ttl \in CtorTtlArgs : cache = NewCache(ttl, TRUE)
    /\ th = NoThreads
    /\ ghost = {}
    /\ dirs = TRUE
    /\ upstream = NoGateway
    /\ registry = NoRegistry
    /\ others = <<>>

Finish(op, req, response, ttl, key, out) ==
    /\ files' = out.files
    /\ last' = Done(op, req, response, ttl, key, files, now, out)
    /\ UNCHANGED <<now, kq, cache, th, ghost, dirs, upstream, registry, others>>

StoreSet ==
    \E c \in SetCalls :
        Finish("set", c.req, c.response, c.ttl, SetKey(c.req),
               SetAt(dirs, files, cache.ttl_seconds, now, c.req.provider,
                     c.req.model, c.req.prompt, c.response,
                     c.req.temperature, SetTtlArg(c.ttl, c.req.extras),
                     SetKwargs(c.req.extras)))

StoreGet ==
    \E req \in Requests :
        /\ ContentAt(files, GetKey(req)).kind = "entry"
               => files[GetKey(req)].data.access_count < MaxAccess
        /\ Finish("get", req, {}, PyNone, GetKey(req),
                  Get(files, now, req.provider, req.model, req.prompt,
                      req.temperature, GetKwargs(req.extras)))

StoreInvalidate ==
    \E req \in Requests :
        Finish("invalidate", NoReq, {}, PyNone, GetKey(req),
               Invalidate(files, GetKey(req)))

StoreClearAll ==
    Finish("clear_all", NoReq, {}, PyNone, Sha256(<<>>), ClearAll(files))

StoreClearExpired ==
    \E out \in ClearExpiredOutcomes(files, now) :
        Finish("clear_expired", NoReq, {}, PyNone, Sha256(<<>>), out)

\* a clock with a background timer that removes an entry as its TTL elapses
TickEvicting ==
    /\ now < MaxTime
    /\ now' = now + 1
    /\ files' = ClearExpired(files, now + 1).files
    /\ UNCHANGED <<last, kq, cache, th, ghost, dirs, upstream, registry, others>>

\* time.time() moves on; the store has no timer and no thread of its own
Tick ==
    /\ now < MaxTime
    /\ now' = now + 1
    /\ UNCHANGED <<files, last, kq, cache, th, ghost, dirs, upstream, registry, others>>

Next ==
    \/ StoreSet
    \/ StoreGet
    \/ StoreInvalidate
    \/ StoreClearAll
    \/ StoreClearExpired
    \/ Tick

Spec == Init /\ [][Next]_vars

-----------------------------------------------------------------------------
(* Properties of the store, under Spec *)

\* the age test of the data model, written out: now - created_at > ttl
Elapsed(content, t) ==
    /\ content.data.ttl_seconds.j # "null"
    /\ t - content.data.created_at > content.data.ttl_seconds.n

\* C1: a set that returned, followed at once by a get with the same
\* parameters, makes the get return a response equal to the one stored.
C1_RoundTrip ==
    [][(last.op = "set" /\ last.exc = "" /\ last'.op = "get"
            /\ last'.req = last.req)
        => last'.ret = RetDict(last.response)]_vars

\* an entry as set writes it, but with no TTL
NeverExpiring(created_at) ==
    [NewEntry(PyNone, created_at, "openai", "gpt-4o", "p1", RespA, PyNone,
              PyNone, <<>>) EXCEPT !.ttl_seconds = PyNone]

\* a get that found a parsable entry and evicted it because its TTL had
\* elapsed
LazilyEvicted ==
    /\ last.op = "get"
    /\ last.pre.kind = "entry"
    /\ Elapsed(last.pre, last.at)
    /\ last.ret.isNone
    /\ last.removed = {last.key}

\* C8: a get that finds a parsable entry returns miss and deletes the entry
\* exactly when now - created_at > ttl, an entry without TTL is never
\* expired, and a clear_expired that follows a lazy eviction does not count
\* the evicted entry: it counts exactly the files it removes, none of them
\* the evicted one.
C8_TtlExpiryOnRead ==
    /\ [](/\ (last.op = "get" /\ last.pre.kind = "entry")
                => /\ last.ret.isNone <=> Elapsed(last.pre, last.at)
                   /\ last.removed = {last.key} <=> Elapsed(last.pre, last.at)
          /\ \A created_at \in 0..now :
                ~IsExpired(NeverExpiring(created_at), now))
    /\ [][(LazilyEvicted /\ last'.op = "clear_expired")
            => /\ last.key \notin last'.removed
               /\ last'.ret = Cardinality(last'.removed)]_vars

C8_Witness == LazilyEvicted

\* C9: a hit leaves created_at and ttl_seconds of its entry as they were,
\* and a get later than created_at + ttl misses however often the entry was
\* hit before.
C9_TtlFromCreation ==
    (last.op = "get" /\ last.pre.kind = "entry")
        => /\ ~last.ret.isNone
                => /\ ContentAt(files, last.key).kind = "entry"
                   /\ files[last.key].data.created_at =
                          last.pre.data.created_at
                   /\ files[last.key].data.ttl_seconds =
                          last.pre.data.ttl_seconds
           /\ Elapsed(last.pre, last.at) => last.ret.isNone

\* an entry hit after its creation, then found expired by a later get
C9_Witness ==
    /\ LazilyEvicted
    /\ last.pre.data.access_count >= 2
    /\ last.pre.data.accessed_at > last.pre.data.created_at

\* the step is an operation op of the store (the clock stands still)
Ran(op) == last'.op = op /\ now' = now

\* C12: a set leaves the file of every key other than its own as it was, and
\* a set that returns and whose key held no file before leaves exactly one
\* file more than there was.
C12_SetFrame ==
    [][Ran("set")
        => /\ \A k \in (DOMAIN files \cup DOMAIN files') \ {last'.key} :
                ContentAt(files', k) = ContentAt(files, k)
           /\ (last'.exc = "" /\ ~Exists(files, last'.key))
                => /\ ContentAt(files', last'.key).kind = "entry"
                   /\ Cardinality(DOMAIN files') =
                        Cardinality(DOMAIN files) + 1]_vars

\* the entry at temperature 0.9 was set into a store that held the entry
\* of the same prompt at temperature 0.7, which is still there
C12_Witness ==
    /\ last.op = "set" /\ last.exc = ""
    /\ last.req = R09
    /\ last.pre = Absent
    /\ ContentAt(files, GetKey(R07)).kind = "entry"
    /\ Cardinality(DOMAIN files) = 2

\* the step is a get that returned a response
Hit == Ran("get") /\ ~last'.ret.isNone

\* C13: a set that returns leaves its entry with access_count 1; a get that
\* hits leaves the entry with access_count one higher and accessed_at equal
\* to the time of the hit; every other step leaves access_count and
\* accessed_at of every entry it does not remove as they were.  So the
\* persisted access_count is 1 plus the number of hits since the set.
C13_AccessBookkeeping ==
    [][/\ (Ran("set") /\ last'.exc = "")
            => /\ files'[last'.key].data.access_count = 1
               /\ files'[last'.key].data.accessed_at = now
       /\ Hit
            => /\ ContentAt(files, last'.key).kind = "entry"
               /\ ContentAt(files', last'.key).kind = "entry"
               /\ files'[last'.key].data.access_count =
                    files[last'.key].data.access_count + 1
               /\ files'[last'.key].data.accessed_at = now
       /\ \A k \in DOMAIN files \cap DOMAIN files' :
            (/\ files[k].kind = "entry"
             /\ ~(Hit /\ k = last'.key)
             /\ ~(Ran("set") /\ k = last'.key))
            => /\ files'[k].kind = "entry"
               /\ files'[k].data.access_count = files[k].data.access_count
               /\ files'[k].data.accessed_at = files[k].data.accessed_at]_vars

\* the second hit after the set, later than the set: access_count is 3
C13_Witness ==
    /\ last.op = "get" /\ ~last.ret.isNone
    /\ files[last.key].data.access_count = 3
    /\ files[last.key].data.accessed_at = last.at
    /\ files[last.key].data.created_at < last.at

\* C14: clear_all returns the number of files the store held, one per key
\* stored since it was empty, and leaves none; while the store is empty
\* every get misses and leaves it empty, and only a set ends that.
C14_BulkClear ==
    [][/\ Ran("clear_all")
            => /\ last'.ret = Cardinality(DOMAIN files)
               /\ last'.exc = ""
               /\ files' = <<>>
       /\ (files = <<>> /\ Ran("get"))
            => (last'.ret.isNone /\ last'.exc = "" /\ files' = <<>>)
       /\ (files = <<>> /\ files' # <<>>) => Ran("set")]_vars

\* clear_all of a store that held the entries of two keys, and nothing else
C14_Witness ==
    /\ last.op = "clear_all"
    /\ last.ret = 2
    /\ Cardinality(last.removed) = 2
    /\ files = <<>>

\* C17: invalidate raises nothing, returns True exactly when a file existed
\* at its key, leaves no file at the key and every other file as it was; on
\* a key without a file it returns False and changes nothing.
C17_Invalidate ==
    [][Ran("invalidate")
        => /\ last'.exc = ""
           /\ last'.ret = Exists(files, last'.key)
           /\ ~Exists(files', last'.key)
           /\ \A k \in (DOMAIN files \cup DOMAIN files') \ {last'.key} :
                ContentAt(files', k) = ContentAt(files, k)
           /\ ~Exists(files, last'.key) => files' = files]_vars

\* invalidate removed the entry of one key and another entry is still there
C17_Witness ==
    /\ last.op = "invalidate"
    /\ last.ret = TRUE
    /\ last.pre.kind = "entry"
    /\ last.removed = {last.key}
    /\ \E k \in DOMAIN files : files[k].kind = "entry"

\* the TTL a set was given: its ttl_seconds argument, None when it got none
Supplied == SetTtlArg(last'.ttl, last'.req.extras)

\* C19: a store created without a TTL has the default of 30 days; a set that
\* returns leaves at its key, whatever was there, the entry with the
\* response it was given, access_count 1, created_at = accessed_at = now and
\* the TTL it was given, whatever its value, or the store's default when it
\* was given none; it returns the key.
C19_SetEntry ==
    /\ [](cache.ttl_seconds = PyInt(30 * 24 * 60 * 60))
    /\ [][(Ran("set") /\ last'.exc = "")
            => /\ ContentAt(files', last'.key).kind = "entry"
               /\ files'[last'.key].data.response =
                    DumpsDict(last'.response)
               /\ files'[last'.key].data.access_count = 1
               /\ files'[last'.key].data.created_at = now
               /\ files'[last'.key].data.accessed_at = now
               /\ files'[last'.key].data.ttl_seconds =
                    JsonDumps(IF Supplied = PyNone THEN cache.ttl_seconds
                              ELSE Supplied)
               /\ last'.ret = last'.key]_vars

\* C29: every file that holds an entry holds one with access_count >= 1,
\* accessed_at >= created_at and a cache_key equal to the key the file is
\* named by.
C29_EntryInvariants ==
    \A k \in DOMAIN files :
        files[k].kind = "entry"
            => /\ files[k].data.access_count >= 1
               /\ files[k].data.accessed_at >= files[k].data.created_at
               /\ files[k].data.cache_key = k

\* two entries, one of them read twice, the last time after it was made
C29_Witness ==
    /\ Cardinality(Parsed(files)) = 2
    /\ \E k \in Parsed(files) :
        /\ files[k].data.access_count = 3
        /\ files[k].data.accessed_at > files[k].data.created_at

\* the entries of fs that carry the fingerprint of prompt
SamePrompt(fs, prompt) ==
    {k \in Parsed(fs) : fs[k].data.prompt_hash = ComputePromptHash(prompt)}

\* C30: get, set and invalidate find their file by the cache key alone: each
\* leaves every entry under another key as it was, whatever prompt_hash it
\* carries, and a get whose key has no file returns nothing although an
\* entry with the same prompt_hash is there.
C30_FingerprintIsNoKey ==
    [][(Ran("get") \/ Ran("set") \/ Ran("invalidate"))
        => /\ \A k \in Parsed(files) \ {last'.key} :
                ContentAt(files', k) = files[k]
           /\ (Ran("get") /\ ~Exists(files, last'.key))
                => (last'.ret.isNone /\ files' = files)]_vars

\* a get that missed while an entry with the same prompt_hash, stored for
\* another temperature, was there and stays
C30_Witness ==
    /\ last.op = "get"
    /\ last.ret.isNone
    /\ last.pre = Absent
    /\ SamePrompt(files, last.req.prompt) # {}
    /\ last.changed = {}

\* the fields of an entry's file but for its access data
SansAccess(content) ==
    [content.data EXCEPT !.accessed_at = 0, !.access_count = 0]

\* C34: a get that hits changes nothing but accessed_at and access_count of
\* the entry at its key: the entry's response, cache_key, provider, model,
\* prompt_hash, created_at, ttl_seconds and request_metadata stay, and so
\* does every other file; a get of a key that has no file returns None,
\* changes no file and creates none.
C34_GetFrame ==
    /\ (last.op = "get" /\ ~last.ret.isNone)
        => /\ last.pre.kind = "entry"
           /\ ContentAt(files, last.key).kind = "entry"
           /\ SansAccess(files[last.key]) = SansAccess(last.pre)
           /\ last.changed \subseteq {last.key}
           /\ last.removed = {}
    /\ (last.op = "get" /\ last.pre = Absent)
        => /\ last.ret.isNone
           /\ last.exc = ""
           /\ last.changed = {}
           /\ last.removed = {}
           /\ ~Exists(files, last.key)

\* a hit, later than the set, in a store that holds the entry of another
\* key as well
C34_Witness ==
    /\ last.op = "get" /\ ~last.ret.isNone
    /\ last.req = R09
    /\ last.changed = {last.key}
    /\ files[last.key].data.access_count = 2
    /\ files[last.key].data.accessed_at > files[last.key].data.created_at
    /\ Cardinality(DOMAIN files) = 2

-----------------------------------------------------------------------------
(* Specification SpecCorrupt: the store of Spec, whose files something     *)
(* other than the store may damage (a crashed writer, another version of   *)
(* the program, an editor)                                                 *)

Damages == {BadJson, BadFields("missing"), BadFields("unknown")}

\* the file of a key is replaced from outside
Damage ==
    \E k \in DOMAIN files, content \in Damages :
        /\ files[k].kind = "entry"
        /\ files' = Write(files, k, content)
        /\ last' = [NoOp EXCEPT !.op = "damage", !.key = k, !.at = now,
                                !.pre = files[k]]
        /\ UNCHANGED <<now, kq, cache, th, ghost, dirs, upstream, registry, others>>

NextCorrupt == Next \/ Damage

SpecCorrupt == Init /\ [][NextCorrupt]_vars

\* the file at key does not parse into a CacheEntry
Unparsable(fs, key) == ContentAt(fs, key).kind \in {"badjson", "badfields"}

\* C15: a get that finds at its key a file that is not JSON, or JSON that
\* lacks fields of CacheEntry or carries unknown ones, returns miss, raises
\* nothing and leaves no file at the key.
C15_CorruptEntryOnRead ==
    [][(Ran("get") /\ Unparsable(files, last'.key))
        => /\ last'.ret.isNone
           /\ last'.exc = ""
           /\ ~Exists(files', last'.key)]_vars

\* the keys whose file does not parse or holds an entry whose TTL has elapsed
Stale(fs, t) ==
    {k \in DOMAIN fs :
        \/ Unparsable(fs, k)
        \/ fs[k].kind = "entry" /\ Elapsed(fs[k], t)}

\* C16: clear_expired raises nothing, removes exactly the files that do not
\* parse into a CacheEntry and those whose TTL has elapsed, returns their
\* number, and leaves every other file as it was.
C16_ClearExpired ==
    [][Ran("clear_expired")
        => /\ last'.exc = ""
           /\ DOMAIN files' = DOMAIN files \ Stale(files, now)
           /\ last'.ret = Cardinality(Stale(files, now))
           /\ \A k \in DOMAIN files' : files'[k] = files[k]]_vars

-----------------------------------------------------------------------------
(* Specification SpecDirs: the store of Spec, whose directory tree may be  *)
(* removed while the LLMCache instance lives on in _cache_instances        *)

StoreGetStats ==
    Finish("get_stats", NoReq, {}, PyNone, Sha256(<<>>),
           GetStats(files, now))

\* the cache directory of the project is removed from outside
RemoveDirs ==
    /\ dirs
    /\ files' = <<>>
    /\ dirs' = FALSE
    /\ last' = [NoOp EXCEPT !.op = "rmtree", !.at = now]
    /\ UNCHANGED <<now, kq, cache, th, ghost, upstream, registry, others>>

\* get_cache(project_id) while the instance is registered: the instance is
\* returned as it is, _ensure_directories does not run
GetCache ==
    /\ last' = [NoOp EXCEPT !.op = "get_cache", !.at = now]
    /\ UNCHANGED <<files, now, kq, cache, th, ghost, dirs, upstream, registry, others>>

\* clear_cache_instance(project_id), then get_cache(project_id): a new
\* LLMCache, whose __init__ makes the directories
Reconstruct ==
    /\ dirs' = TRUE
    /\ \E ttl \in CtorTtlArgs : cache' = NewCache(ttl, TRUE)
    /\ last' = [NoOp EXCEPT !.op = "init", !.at = now]
    /\ UNCHANGED <<files, now, kq, th, ghost, upstream, registry, others>>

NextDirs == Next \/ StoreGetStats \/ RemoveDirs \/ GetCache \/ Reconstruct

SpecDirs == Init /\ [][NextDirs]_vars

StoreOps ==
    {"get", "set", "invalidate", "clear_all", "clear_expired", "get_stats"}

\* C18: with the directories gone, every store operation still ends without
\* an error, and a set makes the directory again and stores its entry.
C18_MissingDirsNeverFatal ==
    [][(~dirs /\ last'.op \in StoreOps /\ now' = now)
        => /\ last'.exc = ""
           /\ Ran("set")
                => /\ dirs'
                   /\ Exists(files', last'.key)]_vars

\* the sum of access_count over the entries of fs
Accesses(fs) == SumAccesses(fs, Parsed(fs))

\* C27: in every get_stats result, active_entries = total_entries -
\* expired_entries with 0 <= expired_entries <= total_entries, total_entries
\* is the number of entries the directory holds, expired_entries the number
\* of those whose TTL has elapsed, and total_accesses the sum of their
\* access_count; a set that stores an entry under a key that held none and a
\* get that hits each raise that sum by one.
C27_StatsConsistency ==
    /\ []((last.op = "get_stats" /\ last.exc = "")
            => /\ last.ret.active_entries =
                    last.ret.total_entries - last.ret.expired_entries
               /\ last.ret.expired_entries >= 0
               /\ last.ret.expired_entries <= last.ret.total_entries
               /\ last.ret.total_entries = Cardinality(Parsed(files))
               /\ last.ret.expired_entries =
                    Cardinality({k \in Parsed(files) :
                                    Elapsed(files[k], last.at)})
               /\ last.ret.total_accesses = Accesses(files))
    /\ [][/\ (Ran("set") /\ last'.exc = ""
                /\ ContentAt(files, last'.key).kind # "entry")
                => Accesses(files') = Accesses(files) + 1
          /\ Hit => Accesses(files') = Accesses(files) + 1]_vars

\* statistics of two entries, one of them expired, one of them read
C27_Witness ==
    /\ last.op = "get_stats"
    /\ last.ret.total_entries = 2
    /\ last.ret.expired_entries = 1
    /\ last.ret.active_entries = 1
    /\ last.ret.total_accesses = 3

\* C28: get_stats of a directory that holds no entry raises nothing and
\* reports 0 for the total, expired and active counts, the total accesses,
\* the average accesses per entry and the ages of the oldest and the newest
\* entry.
C28_StatsOfEmpty ==
    (last.op = "get_stats" /\ Parsed(files) = {})
        => /\ last.exc = ""
           /\ last.ret.total_entries = 0
           /\ last.ret.expired_entries = 0
           /\ last.ret.active_entries = 0
           /\ last.ret.total_accesses = 0
           /\ last.ret.avg_accesses_per_entry = 0
           /\ last.ret.oldest_entry_age_days = 0
           /\ last.ret.newest_entry_age_days = 0

\* statistics of a directory whose one file is not JSON: a set that failed
\* left it
C28_Witness ==
    /\ last.op = "get_stats"
    /\ Parsed(files) = {}
    /\ files # <<>>
    /\ last.ret = NoStats

\* the keys of fs whose file holds an entry whose TTL has elapsed at time t
Expired(fs, t) == {k \in Parsed(fs) : Elapsed(fs[k], t)}

\* C33: expiry is lazy.  The passage of time changes no file; an entry
\* whose TTL has elapsed stays in its file as it is, until a get of its key,
\* a clear_expired, a clear_all or an invalidate of its key removes it (or
\* the directory is removed from outside), or a set of its key replaces it;
\* and get_stats, which changes no file, counts it as expired and not as
\* active.
C33_LazyExpiry ==
    [][/\ now' # now => files' = files
       /\ \A k \in Expired(files, now) :
            /\ ~Exists(files', k)
                => \/ Ran("get") /\ last'.key = k
                   \/ Ran("invalidate") /\ last'.key = k
                   \/ Ran("clear_expired")
                   \/ Ran("clear_all")
                   \/ Ran("rmtree")
            /\ (Exists(files', k) /\ files'[k] # files[k])
                => Ran("set") /\ last'.key = k
       /\ Ran("get_stats")
            => /\ files' = files
               /\ last'.ret.expired_entries =
                    Cardinality(Expired(files, now))
               /\ last'.ret.active_entries =
                    Cardinality(Parsed(files) \ Expired(files, now))]_vars

\* statistics taken two ticks after an entry with a TTL of one second was
\* stored: the entry is still in its file and is counted as expired
C33_Witness ==
    /\ last.op = "get_stats"
    /\ last.at = 2
    /\ last.ret.expired_entries = 1
    /\ last.ret.active_entries = 0
    /\ \E k \in Expired(files, now) :
            /\ files[k].data.created_at = 0
            /\ files[k].data.access_count = 1

-----------------------------------------------------------------------------
(* Specification SpecStats: the store of SpecCorrupt, whose files may be   *)
(* damaged from outside, with get_stats                                    *)

NextStats == NextCorrupt \/ StoreGetStats

SpecStats == Init /\ [][NextStats]_vars

\* C37: get_stats reads only and always answers: it creates, changes and
\* removes no file, access data included, and whatever the directory holds
\* it raises nothing and returns the statistics of the entries that parse,
\* passing over the files that are not JSON and those that lack fields of
\* CacheEntry.
C37_StatsReadOnlyAndTotal ==
    [][Ran("get_stats")
        => /\ files' = files
           /\ last'.exc = ""
           /\ last'.ret.total_entries = Cardinality(Parsed(files))
           /\ last'.ret.total_accesses = Accesses(files)]_vars

-----------------------------------------------------------------------------
(* Specification SpecKey: key derivation as a pure function.  Its one step *)
(* derives the keys of one request: as get derives it, as set derives it,  *)
(* and as get derives it when the caller passes the same extension         *)
(* parameters in another order.                                            *)

ExtraNames == {"max_tokens", "seed", "ttl_seconds"}
ExtraValues == {PyInt(1), PyInt(2)}
\* stop sequences, passed as a list or as a tuple
StopValues == {PyList("x"), PyTuple("x")}
ExtraPairs == (ExtraNames \X ExtraValues) \cup ({"stop"} \X StopValues)

\* keyword arguments: up to MaxExtras pairs with distinct names, in the
\* order the caller wrote them
ExtrasOfLen(n) ==
    {items \in [1..n -> ExtraPairs] :
        \A i, j \in 1..n : i # j => items[i][1] # items[j][1]}
AllExtras == UNION {ExtrasOfLen(n) : n \in 0..MaxExtras}

\* the same pairs in every insertion order
Reorderings(items) ==
    {other \in ExtrasOfLen(Len(items)) :
        {other[i] : i \in 1..Len(other)} = {items[i] : i \in 1..Len(items)}}

KeyRequests ==
    {Request(provider, "gpt-4o", prompt, temperature, extras) :
        provider \in {"openai", "anthropic"}, prompt \in {"p1", "p2"},
        temperature \in {PyNone, PyFloat(7), PyFloat(9)},
        extras \in AllExtras}

\* the store's files before the derivation: none, or one entry
KeyInitFiles ==
    {<<>>,
     Set(<<>>, InitTtl(PyNone), 0, "openai", "gpt-4o", "p1", RespA,
         PyFloat(7), PyNone, <<>>).files}

InitKey ==
    /\ files \in KeyInitFiles
    /\ now = 0
    /\ last = NoOp
    /\ kq = NoKq
    /\ cache = NewCache(PyNone, TRUE)
    /\ th = NoThreads
    /\ ghost = {}
    /\ dirs = TRUE
    /\ upstream = NoGateway
    /\ registry = NoRegistry
    /\ others = <<>>

\* set(..., response, ..., **extras) then get(..., **extras) on the files fs
SetThenGet(fs, selfTtl, t, req, response) ==
    Get(Set(fs, selfTtl, t, req.provider, req.model, req.prompt, response,
            req.temperature, SetTtlArg(PyNone, req.extras),
            SetKwargs(req.extras)).files,
        t, req.provider, req.model, req.prompt, req.temperature,
        GetKwargs(req.extras))

DeriveKeys ==
    \E req \in KeyRequests :
        \E other \in Reorderings(req.extras) :
            /\ kq = NoKq
            /\ kq' = [op |-> "key",
                      req |-> req,
                      reordered |-> other,
                      getKey |-> GetKey(req),
                      getKeyReordered |->
                          GetKey([req EXCEPT !.extras = other]),
                      setKey |-> SetKey(req),
                      hit |-> ~SetThenGet(files, cache.ttl_seconds, now, req,
                                          RespA).ret.isNone,
                      filesBefore |-> files]
            /\ UNCHANGED <<files, now, last, cache, th, ghost, dirs, upstream, registry, others>>

\* the values an extension parameter of that name takes
ValuesOf(name) == {p[2] : p \in {q \in ExtraPairs : q[1] = name}}

\* the requests that differ from req in exactly one of provider, model,
\* prompt, temperature, or the value of one extension parameter
Variants(req) ==
    {[req EXCEPT !.provider = x] :
        x \in {"openai", "anthropic"} \ {req.provider}}
    \cup {[req EXCEPT !.model = x] :
        x \in {"gpt-4o", "gpt-4o-mini"} \ {req.model}}
    \cup {[req EXCEPT !.prompt = x] : x \in {"p1", "p2"} \ {req.prompt}}
    \cup {[req EXCEPT !.temperature = x] :
        x \in {PyNone, PyFloat(7), PyFloat(9)} \ {req.temperature}}
    \cup UNION {{[req EXCEPT !.extras[i][2] = x] :
                    x \in ValuesOf(req.extras[i][1]) \ {req.extras[i][2]}} :
                i \in 1..Len(req.extras)}

\* set(stored, RespA) on the files fs, then get(asked)
SetThenGetOther(fs, selfTtl, t, stored, asked) ==
    Get(Set(fs, selfTtl, t, stored.provider, stored.model, stored.prompt,
            RespA, stored.temperature, SetTtlArg(PyNone, stored.extras),
            SetKwargs(stored.extras)).files,
        t, asked.provider, asked.model, asked.prompt, asked.temperature,
        GetKwargs(asked.extras))

\* the keys of two requests that differ in one parameter, and what a get of
\* the second returns after a set of the first into an empty store
DeriveKeyPair ==
    \E req \in KeyRequests :
        \E other \in Variants(req) :
            /\ kq = NoKq
            /\ kq' = [op |-> "pair",
                      req |-> req,
                      other |-> other,
                      getKey |-> GetKey(req),
                      getKeyOther |-> GetKey(other),
                      setKey |-> SetKey(req),
                      setKeyOther |-> SetKey(other),
                      hitOther |-> ~SetThenGetOther(<<>>, cache.ttl_seconds,
                                                   now, req, other).ret.isNone]
            /\ UNCHANGED <<files, now, last, cache, th, ghost, dirs, upstream, registry, others>>

NextKey == DeriveKeys \/ DeriveKeyPair

SpecKey == InitKey /\ [][NextKey]_vars

\* C2: for every request, extension parameters of any name included, set
\* writes under the key get looks up, so a get after the set hits.
C2_SameKeyOnWriteAndRead ==
    kq.op = "key" => (kq.setKey = kq.getKey /\ kq.hit)

\* C10: requests that differ only in the insertion order of their extension
\* parameters get the same key, and deriving a key leaves the store's files
\* as they were.
C10_KeyDeterminism ==
    kq.op = "key"
        => /\ kq.getKey = kq.getKeyReordered
           /\ files = kq.filesBefore

\* two extension parameters passed in two different orders
C10_Witness ==
    /\ kq.op = "key"
    /\ Len(kq.req.extras) >= 2
    /\ kq.reordered # kq.req.extras
    /\ kq.getKey = kq.getKeyReordered

\* C11: two requests that differ in provider, model, prompt, temperature or
\* the value of an extension parameter get different keys, on the write side
\* and on the read side, so that a get of the one after a set of the other
\* is a miss.
C11_KeySensitivity ==
    kq.op = "pair"
        => /\ kq.getKey # kq.getKeyOther
           /\ kq.setKey # kq.setKeyOther
           /\ kq.setKey # kq.getKeyOther
           /\ ~kq.hitOther

-----------------------------------------------------------------------------
(* CachedLLMGateway.  An LLMResponse is a record of the fields the         *)
(* decorator reads; the nested usage dict of the cached payload is held    *)
(* flat, under the names usage.prompt_tokens, ...                          *)

Has(d, name) == \E p \in d : p[1] = name
Field(d, name) == (CHOOSE p \in d : p[1] = name)[2]
\* data.get(name): None when the key is absent
DictGet(d, name) == IF Has(d, name) THEN Field(d, name) ELSE PyNone

LlmResponseToDict(response) ==
    {<<"content", PyStr(response.content)>>,
     <<"provider", PyStr(response.provider)>>,
     <<"model", PyStr(response.model)>>,
     <<"raw_response", response.raw_response>>,
     <<"latency_ms", PyInt(response.latency_ms)>>,
     <<"usage.prompt_tokens", PyInt(response.usage.prompt_tokens)>>,
     <<"usage.completion_tokens", PyInt(response.usage.completion_tokens)>>,
     <<"usage.total_tokens", PyInt(response.usage.total_tokens)>>}

DictToLlmResponse(data) ==
    [content |-> Field(data, "content").s,
     provider |-> Field(data, "provider").s,
     model |-> Field(data, "model").s,
     raw_response |-> DictGet(data, "raw_response"),
     latency_ms |->
         IF Has(data, "latency_ms") THEN Field(data, "latency_ms").n ELSE 0,
     usage |->
         IF Has(data, "usage.prompt_tokens")
         THEN [prompt_tokens |-> Field(data, "usage.prompt_tokens").n,
               completion_tokens |->
                   Field(data, "usage.completion_tokens").n,
               total_tokens |-> Field(data, "usage.total_tokens").n]
         ELSE [prompt_tokens |-> 0, completion_tokens |-> 0,
               total_tokens |-> 0]]

\* the wrapped gateway's identity
GatewayProvider == "openai"
GatewayModel == "gpt-4o"

Bundle(messages, temperature) ==
    [messages |-> messages, temperature |-> temperature,
     max_tokens |-> PyInt(100)]
Bundles == {Bundle("m1", PyFloat(7)), Bundle("m2", PyFloat(7))}

\* json.dumps({"messages": ..., "temperature": ..., "max_tokens": ...},
\* sort_keys=True) of the model's bundles
PromptBundleToString(bundle) ==
    CASE bundle.messages = "m1" ->
            "{\"max_tokens\": 100, \"messages\": m1, \"temperature\": 0.7}"
      [] bundle.messages = "m2" ->
            "{\"max_tokens\": 100, \"messages\": m2, \"temperature\": 0.7}"

\* the parameters call gives the store's get and set
CallRequest(bundle) ==
    Request(GatewayProvider, GatewayModel, PromptBundleToString(bundle),
            bundle.temperature, << <<"max_tokens", bundle.max_tokens>> >>)

UpResponse(content, raw_response) ==
    [ok |-> TRUE,
     response |->
        [content |-> content, provider |-> GatewayProvider,
         model |-> GatewayModel, raw_response |-> raw_response,
         latency_ms |-> 850,
         usage |-> [prompt_tokens |-> 10, completion_tokens |-> 5,
                    total_tokens |-> 15]],
     error |-> ""]
UpError(error) == [ok |-> FALSE, response |-> NoResponse, error |-> error]

\* what the wrapped gateway may answer to one call
UpstreamOutcomes ==
    {UpResponse("A", PyNone), UpResponse("B", PyNone),
     UpResponse("A", PyObject("sdk")),
     UpError("TimeoutError"), UpError("RateLimitError")}

\* if cached_response: None and an empty dict are both falsy
RetTruthy(ret) == ~ret.isNone /\ ret.value # {}

GwOutcome(fs, ret, exc, calls, streams) ==
    [files |-> fs, ret |-> ret, exc |-> exc, calls |-> calls,
     streams |-> streams]

\* the wrapped gateway's call: its response, or its error raised
Delegate(fs, up) ==
    IF up.ok THEN GwOutcome(fs, up.response, "", 1, 0)
    ELSE GwOutcome(fs, NoResponse, up.error, 1, 0)

\* a call that asks the wrapped gateway before it looks at the cache
CallUpstreamFirst(fs, c, t, bundle, up) ==
    IF ~up.ok THEN Delegate(fs, up)
    ELSE LET req == CallRequest(bundle)
             put == Set(fs, c.ttl_seconds, t, req.provider, req.model,
                        req.prompt, LlmResponseToDict(up.response),
                        req.temperature, PyNone, req.extras)
         IN  GwOutcome(put.files, up.response, put.exc, 1, 0)

\* a call that tries the wrapped gateway a second time when it fails and
\* then stores a marker for the failed request
CallRetryAndRemember(fs, c, t, bundle, up) ==
    LET req == CallRequest(bundle)
        got == Get(fs, t, req.provider, req.model, req.prompt,
                   req.temperature, req.extras)
    IN  IF RetTruthy(got.ret)
        THEN GwOutcome(got.files, DictToLlmResponse(got.ret.value), "", 0, 0)
        ELSE IF ~up.ok
        THEN GwOutcome(Set(got.files, c.ttl_seconds, t, req.provider,
                           req.model, req.prompt, {}, req.temperature,
                           PyNone, req.extras).files,
                       NoResponse, up.error, 2, 0)
        ELSE LET put == Set(got.files, c.ttl_seconds, t, req.provider,
                            req.model, req.prompt,
                            LlmResponseToDict(up.response), req.temperature,
                            PyNone, req.extras)
             IN  GwOutcome(put.files, up.response, put.exc, 1, 0)

\* a call that looks at the cache and stores whatever enable_cache says
CallIgnoringSwitch(fs, c, t, bundle, up) ==
    LET req == CallRequest(bundle)
        got == Get(fs, t, req.provider, req.model, req.prompt,
                   req.temperature, req.extras)
        put == Set(got.files, c.ttl_seconds, t, req.provider, req.model,
                   req.prompt, LlmResponseToDict(up.response),
                   req.temperature, PyNone, req.extras)
    IN  IF RetTruthy(got.ret)
        THEN GwOutcome(got.files, DictToLlmResponse(got.ret.value), "", 0, 0)
        ELSE IF ~up.ok THEN Delegate(got.files, up)
        ELSE IF put.exc # "" THEN GwOutcome(put.files, NoResponse, put.exc, 1, 0)
        ELSE GwOutcome(put.files, up.response, "", 1, 0)

\* CachedLLMGateway.call on the files fs at time t, the wrapped gateway
\* answering up if it is asked
Call(fs, c, t, bundle, up) ==
    IF ~c.enable_cache THEN Delegate(fs, up)
    ELSE LET req == CallRequest(bundle)
             got == Get(fs, t, req.provider, req.model, req.prompt,
                        req.temperature, req.extras)
         IN  IF RetTruthy(got.ret)
             THEN GwOutcome(got.files, DictToLlmResponse(got.ret.value), "",
                            0, 0)
             ELSE IF ~up.ok
             THEN Delegate(got.files, up)
             ELSE LET put == Set(got.files, c.ttl_seconds, t, req.provider,
                                 req.model, req.prompt,
                                 LlmResponseToDict(up.response),
                                 req.temperature, PyNone, req.extras)
                  IN  IF put.exc # ""
                      THEN GwOutcome(put.files, NoResponse, put.exc, 1, 0)
                      ELSE GwOutcome(put.files, up.response, "", 1, 0)

\* a stream that serves the cached entry when there is one
StreamFromCache(fs, c, t, bundle, up) ==
    LET req == CallRequest(bundle)
        got == Get(fs, t, req.provider, req.model, req.prompt,
                   req.temperature, req.extras)
    IN  IF RetTruthy(got.ret)
        THEN GwOutcome(got.files, DictToLlmResponse(got.ret.value), "", 0, 0)
        ELSE IF up.ok THEN GwOutcome(got.files, up.response, "", 0, 1)
        ELSE GwOutcome(got.files, NoResponse, up.error, 0, 1)

\* CachedLLMGateway.stream: the chunks of the wrapped gateway's stream,
\* passed on as they come (one chunk here), or its error
Stream(fs, c, t, bundle, up) ==
    IF up.ok THEN GwOutcome(fs, up.response, "", 0, 1)
    ELSE GwOutcome(fs, NoResponse, up.error, 0, 1)

-----------------------------------------------------------------------------
(* Specification SpecGateway: one decorator over one store, its calls run  *)
(* one after another                                                       *)

GatewayTtlArgs == {PyNone, PyInt(1)}

InitGateway ==
    /\ files = <<>>
    /\ now = 0
    /\ last = NoOp
    /\ kq = NoKq
    /\ \E ttl \in GatewayTtlArgs, enable_cache \in BOOLEAN :
            cache = NewCache(ttl, enable_cache)
    /\ th = NoThreads
    /\ ghost = {}
    /\ dirs = TRUE
    /\ upstream = NoGateway
    /\ registry = NoRegistry
    /\ others = <<>>

\* a decorator operation op ran on bundle and ended with outcome out
GatewayDone(op, bundle, up, out) ==
    /\ files' = out.files
    /\ last' = [op |-> op, req |-> CallRequest(bundle), response |-> {},
                ttl |-> PyNone, key |-> GetKey(CallRequest(bundle)),
                pre |-> ContentAt(files, GetKey(CallRequest(bundle))),
                removed |-> DOMAIN files \ DOMAIN out.files,
                changed |-> Changed(files, out.files),
                at |-> now, ret |-> out.ret, exc |-> out.exc,
                calls |-> out.calls, streams |-> out.streams,
                up |-> IF out.calls + out.streams > 0 THEN up ELSE NoUp]
    /\ UNCHANGED <<now, kq, cache, th, ghost, dirs, upstream, registry, others>>

\* an entry the next call on bundle would hit and count past MaxAccess
AtMaxAccess(bundle) ==
    /\ ContentAt(files, GetKey(CallRequest(bundle))).kind = "entry"
    /\ files[GetKey(CallRequest(bundle))].data.access_count >= MaxAccess

GatewayCall ==
    \E bundle \in Bundles, up \in UpstreamOutcomes :
        /\ ~AtMaxAccess(bundle)
        /\ GatewayDone("call", bundle, up, Call(files, cache, now, bundle, up))

\* what the wrapped gateway's stream may yield
StreamOutcomes == {UpResponse("A", PyNone), UpError("TimeoutError")}

GatewayStream ==
    \E bundle \in Bundles, up \in StreamOutcomes :
        GatewayDone("stream", bundle, up,
                    Stream(files, cache, now, bundle, up))

\* CachedLLMGateway.clear_cache
GatewayClearCache ==
    Finish("clear_all", NoReq, {}, PyNone, Sha256(<<>>), ClearAll(files))

NextGateway ==
    \/ GatewayCall
    \/ GatewayStream
    \/ GatewayClearCache
    \/ Tick

SpecGateway == InitGateway /\ [][NextGateway]_vars

\* the entry of the last operation's request was present, parsable and
\* unexpired when the operation began
LiveBefore ==
    /\ last.pre.kind = "entry"
    /\ ~Elapsed(last.pre, last.at)

\* C5: with the cache enabled, a call whose request has a live entry returns
\* the response rebuilt from that entry and never asks the wrapped gateway;
\* a miss asks it once, and a call that follows a successful call of the same
\* request, the entry still unexpired, asks it not at all.
C5_HitShortCircuits ==
    /\ []((last.op = "call" /\ cache.enable_cache)
            => /\ LiveBefore
                    => /\ last.calls = 0
                       /\ last.exc = ""
                       /\ last.ret =
                            DictToLlmResponse(FromDict(last.pre).response)
               /\ ~LiveBefore => last.calls = 1)
    /\ [][(/\ cache.enable_cache
           /\ last.op = "call" /\ last.exc = ""
           /\ last'.op = "call" /\ last'.req = last.req
           /\ last'.pre.kind = "entry" /\ ~Elapsed(last'.pre, last'.at))
            => /\ last'.calls = 0
               /\ last'.ret.content = last.ret.content]_vars

\* a call that hit an entry written by an earlier call
C5_Witness ==
    /\ last.op = "call"
    /\ cache.enable_cache
    /\ LiveBefore
    /\ last.calls = 0
    /\ last.ret.content = "B"

\* C6: when the wrapped gateway fails on the miss path, call raises that same
\* error, has asked the gateway once, and the entry of the request is neither
\* created nor changed: its file is as before, or gone if the miss evicted it.
C6_UpstreamFailurePropagates ==
    (last.op = "call" /\ last.calls > 0 /\ ~last.up.ok)
        => /\ last.exc = last.up.error
           /\ last.calls = 1
           /\ ContentAt(files, last.key) \in {last.pre, Absent}
           /\ last.changed \subseteq last.removed
           /\ last.removed \subseteq {last.key}

\* a failed upstream call on a miss, with the cache enabled
C6_Witness ==
    /\ last.op = "call"
    /\ cache.enable_cache
    /\ last.calls = 1
    /\ last.up = UpError("RateLimitError")
    /\ last.exc = "RateLimitError"

\* C7: stream passes on what the wrapped gateway's stream yields, whether or
\* not an entry for the request exists, and leaves every file of the cache
\* as it was.
C7_StreamBypassesCache ==
    last.op = "stream"
        => /\ last.streams = 1
           /\ last.calls = 0
           /\ last.up.ok => (last.ret = last.up.response /\ last.exc = "")
           /\ ~last.up.ok => last.exc = last.up.error
           /\ last.changed = {}
           /\ ContentAt(files, last.key) = last.pre

\* a stream of a request whose entry is live, answered with other content
\* than the entry holds
C7_Witness ==
    /\ last.op = "stream"
    /\ cache.enable_cache
    /\ LiveBefore
    /\ last.up.ok
    /\ DictToLlmResponse(FromDict(last.pre).response).content # last.ret.content

\* C21: when a call misses and the wrapped gateway answers, the caller gets
\* the very response the gateway returned, nothing is raised, and the file of
\* the request holds an entry with that response's payload and access_count 1.
C21_MissReturnsFresh ==
    (last.op = "call" /\ cache.enable_cache /\ last.calls = 1 /\ last.up.ok)
        => /\ last.exc = ""
           /\ last.ret = last.up.response
           /\ ContentAt(files, last.key).kind = "entry"
           /\ files[last.key].data.response =
                DumpsDict(LlmResponseToDict(last.up.response))
           /\ files[last.key].data.access_count = 1

-----------------------------------------------------------------------------
(* Specification SpecSwitch: decorators with and without caching over the  *)
(* store of one project.  get_cache gives every CachedLLMGateway of the    *)
(* project the same LLMCache, so a decorator with caching disabled works   *)
(* next to entries that a decorator with caching enabled has stored.       *)

\* CachedLLMGateway(gateway, project_id, enable_cache): another decorator
\* takes over; the registered LLMCache and its TTL stay
GatewayWrap ==
    /\ \E enable_cache \in BOOLEAN :
            cache' = [cache EXCEPT !.enable_cache = enable_cache]
    /\ last' = [NoOp EXCEPT !.op = "wrap", !.at = now]
    /\ UNCHANGED <<files, now, kq, th, ghost, dirs, upstream, registry, others>>

NextSwitch ==
    \/ GatewayCall
    \/ GatewayWrap
    \/ Tick

SpecSwitch == InitGateway /\ [][NextSwitch]_vars

\* C23: with caching disabled, a call asks the wrapped gateway once and ends
\* as that call ends, also when an entry for the request exists, and no file
\* of the cache is created, changed or removed.
C23_DisabledDelegates ==
    (last.op = "call" /\ ~cache.enable_cache)
        => /\ last.calls = 1
           /\ last.up.ok => (last.ret = last.up.response /\ last.exc = "")
           /\ ~last.up.ok => last.exc = last.up.error
           /\ last.changed = {}
           /\ last.removed = {}
           /\ ContentAt(files, last.key) = last.pre

\* a call with caching disabled whose request has a live entry, answered
\* with other content than the entry holds
C23_Witness ==
    /\ last.op = "call"
    /\ ~cache.enable_cache
    /\ LiveBefore
    /\ last.up.ok
    /\ last.ret.content # DictToLlmResponse(FromDict(last.pre).response).content
    /\ files[last.key].data.access_count = 1

-----------------------------------------------------------------------------
(* Specification SpecTransparent: the decorator over a deterministic       *)
(* gateway, one that answers every call of a bundle the same way.  The     *)
(* undecorated gateway's answer to a call is then upstream[bundle].        *)

Answers ==
    {UpResponse("A", PyNone), UpResponse("B", PyTuple("x")),
     UpResponse("A", PyObject("sdk")), UpError("TimeoutError")}

InitTransparent ==
    /\ files = <<>>
    /\ now = 0
    /\ last = NoOp
    /\ kq = NoKq
    /\ \E ttl \in GatewayTtlArgs, enable_cache \in BOOLEAN :
            cache = NewCache(ttl, enable_cache)
    /\ th = NoThreads
    /\ ghost = {}
    /\ dirs = TRUE
    /\ upstream \in [Bundles -> Answers]
    /\ registry = NoRegistry
    /\ others = <<>>

TransparentCall ==
    \E bundle \in Bundles :
        /\ ~AtMaxAccess(bundle)
        /\ GatewayDone("call", bundle, upstream[bundle],
                       Call(files, cache, now, bundle, upstream[bundle]))

\* CachedLLMGateway.clear_expired_cache
GatewayClearExpired ==
    \E out \in ClearExpiredOutcomes(files, now) :
        Finish("clear_expired", NoReq, {}, PyNone, Sha256(<<>>), out)

NextTransparent ==
    \/ TransparentCall
    \/ GatewayClearCache
    \/ GatewayClearExpired
    \/ Tick

SpecTransparent == InitTransparent /\ [][NextTransparent]_vars

\* the bundle of the last call
Asked == CHOOSE b \in Bundles : CallRequest(b) = last.req

\* C22: a call that hits returns the content, provider, model, latency and
\* token usage of the response the wrapped gateway gave for the bundle, and
\* every call over a deterministic gateway ends as the undecorated gateway's
\* call does: the same response returned, or the same error raised.
C22_TransparentOnHit ==
    last.op = "call"
        => /\ (cache.enable_cache /\ last.calls = 0)
                => /\ upstream[Asked].ok
                   /\ last.ret.content = upstream[Asked].response.content
                   /\ last.ret.provider = upstream[Asked].response.provider
                   /\ last.ret.model = upstream[Asked].response.model
                   /\ last.ret.latency_ms =
                        upstream[Asked].response.latency_ms
                   /\ last.ret.usage = upstream[Asked].response.usage
           /\ last.ret = Delegate(files, upstream[Asked]).ret
           /\ last.exc = Delegate(files, upstream[Asked]).exc

-----------------------------------------------------------------------------
(* get_cache and clear_cache_instance, and the store operations of the     *)
(* instances they hand out, over two projects.                             *)
(* ProjectStorage.get_cache_dir gives each project its own directory.      *)

MaxInstances == 3

\* LLMCache(project_id, ttl_seconds): the id-th instance made
NewInstance(id, ttl_seconds) ==
    [id |-> id, ttl_seconds |-> InitTtl(ttl_seconds)]

\* what a registry function leaves: the registry, the value returned and
\* the files of the project's responses_dir
RegOutcome(reg, ret, fs) == [registry |-> reg, ret |-> ret, files |-> fs]

\* a get_cache that makes a new instance at every call
GetCacheAlwaysNew(reg, fs, project_id, ttl_seconds) ==
    LET made == NewInstance(reg.made + 1, ttl_seconds)
    IN  RegOutcome([inst |-> [reg.inst EXCEPT ![project_id] = made],
                    made |-> reg.made + 1], made, fs)

\* get_cache(project_id, ttl_seconds); LLMCache.__init__ makes the
\* directories if they are missing and touches no file
GetCacheOf(reg, fs, project_id, ttl_seconds) ==
    IF reg.inst[project_id] = NoInstance
    THEN LET made == NewInstance(reg.made + 1, ttl_seconds)
         IN  RegOutcome([inst |-> [reg.inst EXCEPT ![project_id] = made],
                         made |-> reg.made + 1], made, fs)
    ELSE RegOutcome(reg, reg.inst[project_id], fs)

\* a clear_cache_instance that also empties the project's responses_dir
ClearCacheInstancePurging(reg, fs, project_id) ==
    RegOutcome([reg EXCEPT !.inst[project_id] = NoInstance], NoInstance, <<>>)

\* clear_cache_instance(project_id): del _cache_instances[project_id]
ClearCacheInstance(reg, fs, project_id) ==
    IF reg.inst[project_id] # NoInstance
    THEN RegOutcome([reg EXCEPT !.inst[project_id] = NoInstance],
                    NoInstance, fs)
    ELSE RegOutcome(reg, NoInstance, fs)

\* one responses_dir for all projects
DirShared(project_id) == files

\* the responses_dir of a project
Dir(project_id) == IF project_id = "pA" THEN files ELSE others

\* a registry operation op on project_id ended with outcome out
RegistryDone(op, project_id, out) ==
    /\ registry' = out.registry
    /\ files' = IF project_id = "pA" THEN out.files ELSE files
    /\ others' = IF project_id = "pA" THEN others ELSE out.files
    /\ last' = [project |-> project_id, inst |-> out.ret,
                other |-> <<>>] @@ [NoOp EXCEPT !.op = op, !.at = now]
    /\ UNCHANGED <<now, kq, cache, th, ghost, dirs, upstream>>

RegistryGetCache ==
    \E project_id \in Projects, ttl \in GatewayTtlArgs :
        /\ registry.inst[project_id] = NoInstance
                => registry.made < MaxInstances
        /\ RegistryDone("get_cache", project_id,
                        GetCacheOf(registry, Dir(project_id), project_id,
                                   ttl))

RegistryClearCacheInstance ==
    \E project_id \in Projects :
        RegistryDone("clear_cache_instance", project_id,
                     ClearCacheInstance(registry, Dir(project_id),
                                        project_id))

\* the response the callers of a project's store put under R07
ProjectResponse(project_id) ==
    IF project_id = "pA" THEN RespA ELSE RespTuple

\* a store operation op of the instance registered for project_id ended with
\* outcome out
ProjectDone(op, project_id, req, response, key, out) ==
    /\ registry.inst[project_id] # NoInstance
    /\ files' = IF project_id = "pA" THEN out.files ELSE files
    /\ others' = IF project_id = "pA" THEN others ELSE out.files
    /\ last' = [project |-> project_id, inst |-> registry.inst[project_id],
                other |-> IF project_id = "pA" THEN others ELSE files]
                @@ Done(op, req, response, PyNone, key, Dir(project_id), now,
                        out)
    /\ UNCHANGED <<now, kq, cache, th, ghost, dirs, upstream, registry>>

ProjectSet(project_id) ==
    ProjectDone("set", project_id, R07, ProjectResponse(project_id),
                SetKey(R07),
                Set(Dir(project_id), registry.inst[project_id].ttl_seconds,
                    now, R07.provider, R07.model, R07.prompt,
                    ProjectResponse(project_id), R07.temperature, PyNone,
                    SetKwargs(R07.extras)))

ProjectGet(project_id) ==
    /\ ContentAt(Dir(project_id), GetKey(R07)).kind = "entry"
        => Dir(project_id)[GetKey(R07)].data.access_count < MaxAccess
    /\ ProjectDone("get", project_id, R07, {}, GetKey(R07),
                   Get(Dir(project_id), now, R07.provider, R07.model,
                       R07.prompt, R07.temperature, GetKwargs(R07.extras)))

ProjectInvalidate(project_id) ==
    ProjectDone("invalidate", project_id, NoReq, {}, GetKey(R07),
                Invalidate(Dir(project_id), GetKey(R07)))

ProjectClearAll(project_id) ==
    ProjectDone("clear_all", project_id, NoReq, {}, Sha256(<<>>),
                ClearAll(Dir(project_id)))

ProjectClearExpired(project_id) ==
    \E out \in ClearExpiredOutcomes(Dir(project_id), now) :
        ProjectDone("clear_expired", project_id, NoReq, {}, Sha256(<<>>),
                    out)

ProjectGetStats(project_id) ==
    ProjectDone("get_stats", project_id, NoReq, {}, Sha256(<<>>),
                GetStats(Dir(project_id), now))

-----------------------------------------------------------------------------
(* Specification SpecRegistry: the registry over two projects, and the     *)
(* store of the first project written and read through the instances the   *)
(* registry hands out                                                      *)

InitRegistry ==
    /\ files = <<>>
    /\ now = 0
    /\ last = NoOp
    /\ kq = NoKq
    /\ cache = NewCache(PyNone, TRUE)
    /\ th = NoThreads
    /\ ghost = {}
    /\ dirs = TRUE
    /\ upstream = NoGateway
    /\ registry = NoRegistry
    /\ others = <<>>

NextRegistry ==
    \/ RegistryGetCache
    \/ RegistryClearCacheInstance
    \/ ProjectSet("pA")
    \/ ProjectGet("pA")
    \/ ProjectInvalidate("pA")
    \/ Tick

SpecRegistry == InitRegistry /\ [][NextRegistry]_vars

\* C24: get_cache of a registered project returns the registered instance
\* and makes none; get_cache of an unregistered project makes an instance
\* that is none of those made before and registers it; a project's
\* registration changes by nothing but a get_cache that registers it and a
\* clear_cache_instance of that project; clear_cache_instance of an
\* unregistered project changes nothing and raises nothing.
C24_RegistryReuse ==
    [][\A p \in Projects :
        /\ (Ran("get_cache") /\ last'.project = p
                /\ registry.inst[p] # NoInstance)
            => /\ last'.inst = registry.inst[p]
               /\ registry' = registry
        /\ (Ran("get_cache") /\ last'.project = p
                /\ registry.inst[p] = NoInstance)
            => /\ last'.inst.id > registry.made
               /\ last'.inst.id \notin
                    {registry.inst[q].id : q \in Projects}
               /\ registry'.inst[p] = last'.inst
               /\ \A q \in Projects \ {p} :
                    registry'.inst[q] = registry.inst[q]
        /\ (Ran("clear_cache_instance") /\ last'.project = p)
            => /\ registry'.inst[p] = NoInstance
               /\ last'.exc = ""
               /\ registry.inst[p] = NoInstance => registry' = registry
        /\ (registry.inst[p] # NoInstance
                /\ ~(Ran("clear_cache_instance") /\ last'.project = p))
            => registry'.inst[p] = registry.inst[p]]_vars

\* a get_cache that returned the second instance of the first project, the
\* second project never registered: the first was removed in between
C24_Witness ==
    /\ last.op = "get_cache"
    /\ last.project = "pA"
    /\ last.inst.id = 2
    /\ registry.made = 2
    /\ registry.inst["pA"] = last.inst
    /\ registry.inst["pB"] = NoInstance

\* C25: clear_cache_instance and get_cache leave every file of both
\* projects as it was, and a get through whichever instance is registered
\* returns the response of the entry its file holds, if the entry's TTL has
\* not elapsed.
C25_RemoveKeepsEntries ==
    [][/\ (Ran("clear_cache_instance") \/ Ran("get_cache"))
            => (files' = files /\ others' = others)
       /\ (Ran("get") /\ last'.pre.kind = "entry"
                /\ ~Elapsed(last'.pre, last'.at))
            => last'.ret = RetDict(FromDict(last'.pre).response)]_vars

\* a get that hit through an instance with the default TTL an entry that an
\* instance with a TTL of 1 second stored: the instance that stored it was
\* removed and another one made
C25_Witness ==
    /\ last.op = "get"
    /\ ~last.ret.isNone
    /\ last.inst.ttl_seconds = PyInt(DEFAULT_TTL_SECONDS)
    /\ last.pre.kind = "entry"
    /\ last.pre.data.ttl_seconds = JsonDumps(PyInt(1))

-----------------------------------------------------------------------------
(* Specification SpecProjects: the stores of two projects, both            *)
(* registered, their operations run one after another in any order         *)

InitProjects ==
    /\ files = <<>>
    /\ now = 0
    /\ last = NoOp
    /\ kq = NoKq
    /\ cache = NewCache(PyNone, TRUE)
    /\ th = NoThreads
    /\ ghost = {}
    /\ dirs = TRUE
    /\ upstream = NoGateway
    /\ \E ttlA \in GatewayTtlArgs, ttlB \in GatewayTtlArgs :
            registry = GetCacheOf(
                GetCacheOf(NoRegistry, <<>>, "pA", ttlA).registry,
                <<>>, "pB", ttlB).registry
    /\ others = <<>>

NextProjects ==
    \/ \E project_id \in Projects :
            \/ ProjectSet(project_id)
            \/ ProjectGet(project_id)
            \/ ProjectInvalidate(project_id)
            \/ ProjectClearAll(project_id)
            \/ ProjectClearExpired(project_id)
            \/ ProjectGetStats(project_id)
    \/ Tick

SpecProjects == InitProjects /\ [][NextProjects]_vars

\* C26: an operation of one project's store leaves every file of the other
\* project as it was, and what it returns comes from its own files: a get
\* returns the response of its own entry or nothing, get_stats counts its
\* own entries and their accesses, invalidate, clear_all and clear_expired
\* remove and count none but its own files.
C26_NamespaceIsolation ==
    [][\A p \in Projects :
        LET own == IF p = "pA" THEN files ELSE others
            ownAfter == IF p = "pA" THEN files' ELSE others'
            foreign == IF p = "pA" THEN others ELSE files
            foreignAfter == IF p = "pA" THEN others' ELSE files'
        IN  (last'.op \in StoreOps /\ now' = now /\ last'.project = p)
            => /\ foreignAfter = foreign
               /\ Ran("get")
                    => \/ last'.ret.isNone
                       \/ /\ ContentAt(own, last'.key).kind = "entry"
                          /\ last'.ret =
                               RetDict(FromDict(own[last'.key]).response)
               /\ Ran("get_stats")
                    => /\ last'.ret.total_entries = Cardinality(Parsed(own))
                       /\ last'.ret.total_accesses =
                            SumAccesses(own, Parsed(own))
               /\ Ran("invalidate") => last'.ret = Exists(own, last'.key)
               /\ Ran("clear_all")
                    => last'.ret = Cardinality(DOMAIN own)
               /\ Ran("clear_expired")
                    => last'.ret = Cardinality(Swept(own, now))
               /\ (DOMAIN own \ DOMAIN ownAfter) = last'.removed]_vars

\* a get of the second project that returned the second project's response
\* while the first project holds another response under the same key
C26_Witness ==
    /\ last.op = "get"
    /\ last.project = "pB"
    /\ last.ret = RetDict(LoadsDict(DumpsDict(RespTuple)))
    /\ ContentAt(files, last.key).kind = "entry"
    /\ FromDict(files[last.key]).response = RespA
    /\ files[last.key].data.access_count = 1

-----------------------------------------------------------------------------
(* Specification SpecWrap: decorators constructed over the registry.       *)
(* CachedLLMGateway.__init__ takes its LLMCache from get_cache(project_id, *)
(* ttl_seconds); cache is the store and switch of the decorator made last, *)
(* ghost the arguments it was constructed with.                            *)

NoDecorator == [wrapped |-> FALSE, ttl_seconds |-> PyNone]

\* CachedLLMGateway.__init__: self._cache = get_cache(project_id, ttl_seconds)
DecoratorStore(reg, fs, project_id, ttl_seconds) ==
    GetCacheOf(reg, fs, project_id, ttl_seconds)

InitWrap ==
    /\ files = <<>>
    /\ now = 0
    /\ last = NoOp
    /\ kq = NoKq
    /\ cache = NewCache(PyNone, TRUE)
    /\ th = NoThreads
    /\ ghost = NoDecorator
    /\ dirs = TRUE
    /\ upstream = NoGateway
    /\ registry = NoRegistry
    /\ others = <<>>

\* CachedLLMGateway(gateway, "pA", enable_cache, ttl_seconds)
DecoratorInit ==
    \E enable_cache \in BOOLEAN, ttl \in GatewayTtlArgs :
        LET out == DecoratorStore(registry, files, "pA", ttl)
        IN  /\ registry.inst["pA"] = NoInstance
                => registry.made < MaxInstances
            /\ registry' = out.registry
            /\ cache' = [ttl_seconds |-> out.ret.ttl_seconds,
                         enable_cache |-> enable_cache]
            /\ ghost' = [wrapped |-> TRUE, ttl_seconds |-> ttl]
            /\ last' = [NoOp EXCEPT !.op = "wrap", !.at = now]
            /\ UNCHANGED <<files, now, kq, th, dirs, upstream, others>>

\* get_cache("pA", ttl_seconds) by another caller
WrapGetCache ==
    \E ttl \in GatewayTtlArgs :
        /\ registry.inst["pA"] = NoInstance => registry.made < MaxInstances
        /\ RegistryDone("get_cache", "pA",
                        GetCacheOf(registry, files, "pA", ttl))

\* clear_cache_instance("pA")
WrapClearCacheInstance ==
    RegistryDone("clear_cache_instance", "pA",
                 ClearCacheInstance(registry, files, "pA"))

\* what the wrapped gateway answers to the calls of this specification
WrapUpstream == {UpResponse("A", PyNone), UpError("TimeoutError")}

\* the bundle the callers of this specification send
WrapBundles == {Bundle("m1", PyFloat(7))}

\* call of the decorator made last
DecoratorCall ==
    /\ ghost.wrapped
    /\ \E bundle \in WrapBundles, up \in WrapUpstream :
        /\ ~AtMaxAccess(bundle)
        /\ GatewayDone("call", bundle, up, Call(files, cache, now, bundle, up))

NextWrap ==
    \/ DecoratorInit
    \/ WrapGetCache
    \/ WrapClearCacheInstance
    \/ DecoratorCall
    \/ Tick

SpecWrap == InitWrap /\ [][NextWrap]_vars

\* C32: every entry a call stores through a decorator constructed with
\* ttl_seconds = T is persisted with ttl_seconds T (the default of 30 days
\* for T = None), whether or not a store of the project was registered
\* before the decorator was constructed.
C32_DecoratorTtlPersisted ==
    (/\ last.op = "call"
     /\ cache.enable_cache
     /\ last.calls = 1
     /\ last.exc = "")
        => /\ ContentAt(files, last.key).kind = "entry"
           /\ FromDict(files[last.key]).ttl_seconds
                = InitTtl(ghost.ttl_seconds)

-----------------------------------------------------------------------------
(* Specification SpecConc: two threads run store operations on the file of *)
(* one key, interleaved at the file system calls the code makes.  The code *)
(* takes no lock.  open(path, "w") empties the file (or creates it) and    *)
(* the buffered text reaches the file in one write when the file is        *)
(* closed; a writer whose file was unlinked after its open writes to the   *)
(* unlinked file, not to the path.                                         *)

Threads == {"t1", "t2"}
MaxOps == 2

K == GetKey(R07)
RespLong == {<<"content", PyStr("B")>>, <<"raw_response", PyList("x")>>}
ConcResponses == {RespA, RespLong}

\* the length of a file's text, up to what the model tells apart: an entry
\* with the longer response is longer
Size(content) ==
    IF content.kind = "badjson" THEN content.size
    ELSE IF Has(content.data.response, "raw_response") THEN 2 ELSE 1

\* a write of text at offset 0 over the bytes current: what is left of a
\* longer text after the new one ends stays in the file
Overlay(current, text) ==
    IF Size(current) <= Size(text) THEN text ELSE Torn(Size(current))

Idle ==
    [pc |-> "idle", op |-> "none", entry |-> Absent, seen |-> Absent,
     ret |-> RetNone, exc |-> "", orphan |-> FALSE, count |-> 0, ops |-> 0,
     hit |-> FALSE]

InitConc ==
    /\ files = <<>>
    /\ now = 0
    /\ last = NoOp
    /\ kq = NoKq
    /\ cache = NewCache(PyInt(1), TRUE)
    /\ th = [t \in Threads |-> Idle]
    /\ ghost = {}
    /\ dirs = TRUE
    /\ upstream = NoGateway
    /\ registry = NoRegistry
    /\ others = <<>>

Writing(t) == th[t].pc \in {"get_write", "set_write"}
SetRunning == \E t \in Threads : th[t].op = "set" /\ th[t].pc # "idle"

\* the operation of thread t ends: it returns ret or raises exc
End(t, ret, exc, hit) ==
    [th[t] EXCEPT !.pc = "idle", !.ret = ret, !.exc = exc, !.hit = hit,
                  !.entry = Absent]

\* thread t unlinks the file of K: the threads that hold it open for
\* writing keep writing to the unlinked file
UnlinkBy(t, next) ==
    /\ files' = Unlink(files, K)
    /\ th' = [u \in Threads |->
                IF u = t THEN next
                ELSE IF Writing(u) THEN [th[u] EXCEPT !.orphan = TRUE]
                ELSE th[u]]

\* ghost holds "deleted" from the moment a delete operation has unlinked
\* the file of K and returned while no set was running, until the next set
\* begins; it holds thread t while t runs or has run a get that began in
\* that time
Deleted == IF SetRunning THEN ghost ELSE ghost \cup {"deleted"}
BeganGet(t) == IF "deleted" \in ghost THEN ghost \cup {t} ELSE ghost \ {t}

Begin(t, op, pc) ==
    [th[t] EXCEPT !.pc = pc, !.op = op, !.ops = th[t].ops + 1, !.exc = "",
                  !.ret = RetNone, !.seen = Absent, !.count = 0,
                  !.orphan = FALSE, !.hit = FALSE]

CanBegin(t) == th[t].pc = "idle" /\ th[t].ops < MaxOps

Frame == UNCHANGED <<now, last, kq, cache, dirs, upstream, registry, others>>

(* get *)

\* if not cache_path.exists(): return None
GetExists(t) ==
    /\ CanBegin(t)
    /\ th' = [th EXCEPT ![t] =
                IF Exists(files, K) THEN Begin(t, "get", "get_read")
                ELSE Begin(t, "get", "idle")]
    /\ ghost' = BeganGet(t)
    /\ UNCHANGED files
    /\ Frame

\* open(cache_path, "r"), json.load, from_dict, is_expired, update_access
GetRead(t) ==
    /\ th[t].pc = "get_read"
    /\ LET seen == ContentAt(files, K)
       IN  th' = [th EXCEPT ![t] =
                IF seen.kind # "entry"
                \* FileNotFoundError or JSONDecodeError: the handler runs
                THEN [th[t] EXCEPT !.pc = "get_evict", !.seen = seen]
                ELSE IF IsExpired(FromDict(seen), now)
                THEN [th[t] EXCEPT !.pc = "get_evict", !.seen = seen]
                ELSE [th[t] EXCEPT !.pc = "get_trunc", !.seen = seen,
                         !.entry = ToDict(UpdateAccess(FromDict(seen), now))]]
    /\ UNCHANGED <<files, ghost, upstream, registry, others>>
    /\ Frame

\* cache_path.unlink() of an expired entry, cache_path.unlink(missing_ok=True)
\* of an unreadable one; a FileNotFoundError of the first is caught
GetEvict(t) ==
    /\ th[t].pc = "get_evict"
    /\ UnlinkBy(t, End(t, RetNone, "", FALSE))
    /\ UNCHANGED ghost
    /\ Frame

\* open(cache_path, "w")
Truncate(t, next) ==
    /\ files' = Write(files, K, Torn(0))
    /\ th' = [th EXCEPT ![t] = [next EXCEPT !.orphan = FALSE]]

\* the text reaches the file when the with block closes it
Flush(t, next) ==
    /\ files' = IF th[t].orphan \/ ~Exists(files, K) THEN files
                ELSE Write(files, K, Overlay(files[K], th[t].entry))
    /\ th' = [th EXCEPT ![t] = next]

GetTruncate(t) ==
    /\ th[t].pc = "get_trunc"
    /\ Truncate(t, [th[t] EXCEPT !.pc = "get_write"])
    /\ UNCHANGED ghost
    /\ Frame

GetWrite(t) ==
    /\ th[t].pc = "get_write"
    /\ Flush(t, End(t, RetDict(FromDict(th[t].entry).response), "", TRUE))
    /\ UNCHANGED ghost
    /\ Frame

(* set *)

SetTruncate(t) ==
    /\ CanBegin(t)
    /\ \E response \in ConcResponses :
        Truncate(t, [Begin(t, "set", "set_write") EXCEPT
                        !.entry = ToDict(NewEntry(cache.ttl_seconds, now,
                            R07.provider, R07.model, R07.prompt, response,
                            R07.temperature, PyNone, <<>>))])
    /\ ghost' = {}
    /\ Frame

SetWrite(t) ==
    /\ th[t].pc = "set_write"
    /\ Flush(t, End(t, RetNone, "", FALSE))
    /\ UNCHANGED ghost
    /\ Frame

(* invalidate *)

\* if cache_path.exists(): ... return False
InvalidateExists(t) ==
    /\ CanBegin(t)
    /\ th' = [th EXCEPT ![t] =
                IF Exists(files, K) THEN Begin(t, "invalidate", "inv_unlink")
                ELSE Begin(t, "invalidate", "idle")]
    /\ UNCHANGED <<files, ghost, upstream, registry, others>>
    /\ Frame

\* cache_path.unlink(): FileNotFoundError if the file is gone by now
InvalidateUnlink(t) ==
    /\ th[t].pc = "inv_unlink"
    /\ IF Exists(files, K)
       THEN /\ UnlinkBy(t, [End(t, RetNone, "", FALSE) EXCEPT !.count = 1])
            /\ ghost' = Deleted
       ELSE /\ th' = [th EXCEPT ![t] =
                        End(t, RetNone, "FileNotFoundError", FALSE)]
            /\ UNCHANGED <<files, ghost, upstream, registry, others>>
    /\ Frame

(* clear_all *)

\* self.responses_dir.glob("*.json")
ClearAllGlob(t) ==
    /\ CanBegin(t)
    /\ th' = [th EXCEPT ![t] =
                IF Exists(files, K) THEN Begin(t, "clear_all", "ca_unlink")
                ELSE Begin(t, "clear_all", "idle")]
    /\ UNCHANGED <<files, ghost, upstream, registry, others>>
    /\ Frame

\* cache_file.unlink(); count += 1
ClearAllUnlink(t) ==
    /\ th[t].pc = "ca_unlink"
    /\ IF Exists(files, K)
       THEN /\ UnlinkBy(t, [End(t, RetNone, "", FALSE) EXCEPT !.count = 1])
            /\ ghost' = Deleted
       ELSE /\ th' = [th EXCEPT ![t] =
                        End(t, RetNone, "FileNotFoundError", FALSE)]
            /\ UNCHANGED <<files, ghost, upstream, registry, others>>
    /\ Frame

(* clear_expired *)

ClearExpiredGlob(t) ==
    /\ CanBegin(t)
    /\ th' = [th EXCEPT ![t] =
                IF Exists(files, K) THEN Begin(t, "clear_expired", "ce_read")
                ELSE Begin(t, "clear_expired", "idle")]
    /\ UNCHANGED <<files, ghost, upstream, registry, others>>
    /\ Frame

\* open(cache_file, "r"), json.load, from_dict, is_expired
ClearExpiredRead(t) ==
    /\ th[t].pc = "ce_read"
    /\ LET seen == ContentAt(files, K)
       IN  th' = [th EXCEPT ![t] =
                IF seen.kind = "entry" /\ ~IsExpired(FromDict(seen), now)
                THEN [End(t, RetNone, "", FALSE) EXCEPT !.seen = seen]
                ELSE [th[t] EXCEPT !.pc = "ce_unlink", !.seen = seen]]
    /\ UNCHANGED <<files, ghost, upstream, registry, others>>
    /\ Frame

\* cache_file.unlink(); count += 1, in the try block or in the handler
ClearExpiredUnlink(t) ==
    /\ th[t].pc = "ce_unlink"
    /\ IF Exists(files, K)
       THEN /\ UnlinkBy(t, [End(t, RetNone, "", FALSE) EXCEPT !.count = 1])
            /\ ghost' = Deleted
       ELSE /\ th' = [th EXCEPT ![t] =
                        End(t, RetNone, "FileNotFoundError", FALSE)]
            /\ UNCHANGED <<files, ghost, upstream, registry, others>>
    /\ Frame

TickConc ==
    /\ now < MaxTime
    /\ now' = now + 1
    /\ UNCHANGED <<files, last, kq, cache, th, ghost, dirs, upstream, registry, others>>

NextConc ==
    \/ \E t \in Threads :
        \/ GetExists(t) \/ GetRead(t) \/ GetEvict(t)
        \/ GetTruncate(t) \/ GetWrite(t)
        \/ SetTruncate(t) \/ SetWrite(t)
        \/ InvalidateExists(t) \/ InvalidateUnlink(t)
        \/ ClearAllGlob(t) \/ ClearAllUnlink(t)
        \/ ClearExpiredGlob(t) \/ ClearExpiredRead(t) \/ ClearExpiredUnlink(t)
    \/ TickConc

SpecConc == InitConc /\ [][NextConc]_vars

(* Claims about interleaved operations *)

GetReturned(t) == th[t].op = "get" /\ th[t].pc = "idle"

\* C3: under every interleaving of get, set, invalidate, clear_all and
\* clear_expired, a get that began after a delete operation had removed the
\* entry and returned, with no set begun since, never returns a response; a
\* get never goes on to return an entry it read after its TTL had elapsed;
\* and the write-back of a get never creates the file anew after it was
\* unlinked.
C3_NoReturnOfDeletedEntry ==
    /\ [](\A t \in Threads :
            GetReturned(t) /\ th[t].hit => ~(t \in ghost /\ "deleted" \in ghost))
    /\ [][\A t \in Threads :
            /\ th[t].pc = "get_read" /\ th'[t].pc = "get_trunc"
                => ~IsExpired(FromDict(files[K]), now)
            /\ th[t].pc = "get_trunc" /\ th'[t].pc = "get_write"
                => Exists(files, K)]_vars

\* C4: a get that reads the file of a key while a set on that key is between
\* its open and its write finds the complete old entry, no file, or the
\* complete new entry, never a file json.load rejects.
C4_SetReplacesAtomically ==
    [][\A t \in Threads :
        /\ th[t].pc = "get_read"
        /\ th'[t].pc # "get_read"
        /\ \E u \in Threads \ {t} : th[u].pc = "set_write"
        => th'[t].seen.kind \in {"absent", "entry"}]_vars

\* no thread is between the open(cache_path, "w") and the close of a set or
\* of a get's write-back
NoWriter == \A t \in Threads : ~Writing(t)

\* C31: interleaved writes to one key (two sets, or a set and the write-back
\* of a get) never leave a corrupt file: once every writer has closed its
\* file, the file of the key, if there is one, holds a complete entry that
\* json.load and from_dict accept.
C31_WritesLeaveParsableEntry ==
    NoWriter => ContentAt(files, K).kind \in {"absent", "entry"}

\* the file of K holds a complete entry whose TTL has not elapsed
LiveAtK ==
    /\ ContentAt(files, K).kind = "entry"
    /\ ~Elapsed(files[K], now)

\* C35: a set that has returned is not lost to a get of the same key that
\* runs beside it.  No step of a get removes a complete, unexpired entry
\* from the file, and none replaces its response: the unlink of a get that
\* read a half-written file finds no complete entry, and the write-back of
\* a get opens and writes the file only over the response it read.
C35_SetNotLostToGet ==
    [][\A t \in Threads :
        /\ (th[t].pc = "get_evict" /\ th'[t].pc = "idle") => ~LiveAtK
        /\ (th[t].pc = "get_trunc" /\ th'[t].pc = "get_write" /\ LiveAtK)
            => files[K].data.response = th[t].entry.data.response
        /\ (th[t].pc = "get_write" /\ th'[t].pc = "idle" /\ LiveAtK)
            => files' = files]_vars

\* C36: deletions that race on one entry are tolerated as "entry already
\* absent": no operation ends with an error, and an operation counts the
\* entry as deleted only in the step in which it unlinks the file itself,
\* so at most one of them counts it.
C36_RacingDeletesTolerated ==
    /\ [](\A t \in Threads : th[t].exc = "")
    /\ [][\A t \in Threads :
            (th'[t].count = 1 /\ th[t].count = 0)
                => (Exists(files, K) /\ ~Exists(files', K))]_vars

-----------------------------------------------------------------------------
(* Specification SpecGetCache: two threads call get_cache and              *)
(* clear_cache_instance for one project.  _cache_instances is a plain dict *)
(* and the functions take no lock, so a thread may be interrupted between  *)
(* the membership test, the construction with its assignment, and the      *)
(* final lookup.                                                           *)

RegIdle ==
    [pc |-> "idle", op |-> "none", ttl_seconds |-> PyNone,
     ret |-> NoInstance, exc |-> "", ops |-> 0]

InitGetCache ==
    /\ files = <<>>
    /\ now = 0
    /\ last = NoOp
    /\ kq = NoKq
    /\ cache = NewCache(PyNone, TRUE)
    /\ th = [t \in Threads |-> RegIdle]
    /\ ghost = {}
    /\ dirs = TRUE
    /\ upstream = NoGateway
    /\ registry = NoRegistry
    /\ others = <<>>

RegFrame ==
    UNCHANGED <<files, now, last, kq, cache, ghost, dirs, upstream, others>>

\* the threads that have passed the membership test and will construct
Constructing == {t \in Threads : th[t].pc = "gc_construct"}

RegBegin(t, op, pc, ttl) ==
    [th[t] EXCEPT !.pc = pc, !.op = op, !.ttl_seconds = ttl,
                  !.ret = NoInstance, !.exc = "", !.ops = th[t].ops + 1]

\* get_cache: if project_id not in _cache_instances
GetCacheTest(t) ==
    /\ th[t].pc = "idle"
    /\ th[t].ops < MaxOps
    /\ \E ttl \in GatewayTtlArgs :
        th' = [th EXCEPT ![t] =
                IF registry.inst["pA"] = NoInstance
                THEN RegBegin(t, "get_cache", "gc_construct", ttl)
                ELSE RegBegin(t, "get_cache", "gc_return", ttl)]
    /\ registry.inst["pA"] = NoInstance
            => registry.made + Cardinality(Constructing) < MaxInstances
    /\ UNCHANGED registry
    /\ RegFrame

\* _cache_instances[project_id] = LLMCache(project_id, ttl_seconds)
Register(reg, project_id, ttl_seconds) ==
    [inst |-> [reg.inst EXCEPT ![project_id] =
                    NewInstance(reg.made + 1, ttl_seconds)],
     made |-> reg.made + 1]

GetCacheConstruct(t) ==
    /\ th[t].pc = "gc_construct"
    /\ registry' = Register(registry, "pA", th[t].ttl_seconds)
    /\ th' = [th EXCEPT ![t] = [th[t] EXCEPT !.pc = "gc_return"]]
    /\ RegFrame

\* return _cache_instances[project_id]: KeyError if the key is gone
GetCacheReturn(t) ==
    /\ th[t].pc = "gc_return"
    /\ th' = [th EXCEPT ![t] =
                IF registry.inst["pA"] = NoInstance
                THEN [th[t] EXCEPT !.pc = "idle", !.exc = "KeyError"]
                ELSE [th[t] EXCEPT !.pc = "idle",
                                   !.ret = registry.inst["pA"]]]
    /\ UNCHANGED registry
    /\ RegFrame

\* clear_cache_instance: if project_id in _cache_instances
ClearTest(t) ==
    /\ th[t].pc = "idle"
    /\ th[t].ops < MaxOps
    /\ th' = [th EXCEPT ![t] =
                IF registry.inst["pA"] # NoInstance
                THEN RegBegin(t, "clear_cache_instance", "cc_del", PyNone)
                ELSE RegBegin(t, "clear_cache_instance", "idle", PyNone)]
    /\ UNCHANGED registry
    /\ RegFrame

\* del _cache_instances[project_id]: KeyError if the key is gone
ClearDel(t) ==
    /\ th[t].pc = "cc_del"
    /\ registry' = ClearCacheInstance(registry, files, "pA").registry
    /\ th' = [th EXCEPT ![t] =
                IF registry.inst["pA"] = NoInstance
                THEN [th[t] EXCEPT !.pc = "idle", !.exc = "KeyError"]
                ELSE [th[t] EXCEPT !.pc = "idle"]]
    /\ RegFrame

NextGetCache ==
    \E t \in Threads :
        \/ GetCacheTest(t) \/ GetCacheConstruct(t) \/ GetCacheReturn(t)
        \/ ClearTest(t) \/ ClearDel(t)

SpecGetCache == InitGetCache /\ [][NextGetCache]_vars

\* C38: under get_cache calls of several threads for one project, an
\* instance is constructed and registered only while none is registered,
\* so at most one between removes: a registered instance is replaced by
\* nothing but its removal, and every get_cache returns the instance that
\* is registered.
C38_OneInstanceBetweenRemoves ==
    [][/\ registry.inst["pA"] # NoInstance
            => registry'.inst["pA"] \in {registry.inst["pA"], NoInstance}
       /\ \A t \in Threads :
            (th[t].pc = "gc_return" /\ th'[t].pc = "idle")
                => /\ th'[t].exc = ""
                   /\ th'[t].ret = registry'.inst["pA"]]_vars

-----------------------------------------------------------------------------
(* Specification SpecCalls: two tasks of one event loop run                *)
(* CachedLLMGateway.call.  The store's get and set are synchronous, so a   *)
(* call is interrupted at one place only: at await self._gateway.call,     *)
(* between its get and its set.                                            *)

Tasks == {"c1", "c2"}

\* what the wrapped gateway may answer to a call of a task
TaskUpstream ==
    {UpResponse("A", PyNone), UpResponse("B", PyNone), UpError("TimeoutError")}

TaskIdle ==
    [pc |-> "idle", bundle |-> Bundle("", PyNone), ret |-> NoResponse,
     exc |-> "", ops |-> 0, hit |-> FALSE]

InitCalls ==
    /\ files = <<>>
    /\ now = 0
    /\ last = NoOp
    /\ kq = NoKq
    /\ \E ttl \in GatewayTtlArgs, enable_cache \in BOOLEAN :
            cache = NewCache(ttl, enable_cache)
    /\ th = [t \in Tasks |-> TaskIdle]
    /\ ghost = {}
    /\ dirs = TRUE
    /\ upstream = NoGateway
    /\ registry = NoRegistry
    /\ others = <<>>

\* call up to its await: passed through when the cache is disabled, else the
\* get, and the return of the cached response on a hit
CallLookup(t) ==
    /\ th[t].pc = "idle"
    /\ th[t].ops < MaxOps
    /\ \E bundle \in Bundles :
        LET req == CallRequest(bundle)
            got == Get(files, now, req.provider, req.model, req.prompt,
                       req.temperature, req.extras)
            begun == [th[t] EXCEPT !.bundle = bundle, !.ops = th[t].ops + 1,
                                   !.ret = NoResponse, !.exc = "",
                                   !.hit = FALSE]
        IN  IF ~cache.enable_cache
            THEN /\ th' = [th EXCEPT ![t] = [begun EXCEPT !.pc = "awaiting"]]
                 /\ UNCHANGED files
            ELSE /\ ~AtMaxAccess(bundle)
                 /\ files' = got.files
                 /\ th' = [th EXCEPT ![t] =
                        IF RetTruthy(got.ret)
                        THEN [begun EXCEPT
                                !.ret = DictToLlmResponse(got.ret.value),
                                !.hit = TRUE]
                        ELSE [begun EXCEPT !.pc = "awaiting"]]
    /\ UNCHANGED <<now, last, kq, cache, ghost, dirs, upstream, registry, others>>

\* call from its await on: the wrapped gateway's error raised, or its
\* response stored with set and returned
CallStore(t) ==
    /\ th[t].pc = "awaiting"
    /\ \E up \in TaskUpstream :
        LET req == CallRequest(th[t].bundle)
            put == Set(files, cache.ttl_seconds, now, req.provider,
                       req.model, req.prompt, LlmResponseToDict(up.response),
                       req.temperature, PyNone, req.extras)
        IN  IF ~up.ok
            THEN /\ th' = [th EXCEPT ![t] = [th[t] EXCEPT !.pc = "idle",
                                                !.exc = up.error]]
                 /\ UNCHANGED files
            ELSE /\ th' = [th EXCEPT ![t] = [th[t] EXCEPT !.pc = "idle",
                                                !.ret = up.response]]
                 /\ files' = IF cache.enable_cache THEN put.files ELSE files
    /\ UNCHANGED <<now, last, kq, cache, ghost, dirs, upstream, registry, others>>

TickCalls ==
    /\ now < MaxTime
    /\ now' = now + 1
    /\ UNCHANGED <<files, last, kq, cache, th, ghost, dirs, upstream, registry, others>>

NextCalls ==
    \/ \E t \in Tasks : CallLookup(t) \/ CallStore(t)
    \/ TickCalls

SpecCalls == InitCalls /\ [][NextCalls]_vars

\* the keys that hold a parsable entry whose TTL has not elapsed at time t
LiveKeys(fs, t) ==
    {k \in DOMAIN fs : fs[k].kind = "entry" /\ ~Elapsed(fs[k], t)}

\* C20: under every interleaving of calls, a call performs set only for a
\* key that has no live entry, and a live entry is changed only by access
\* tracking: its response and created_at stay and its access_count never
\* goes down.
C20_EntryCreatedOncePerMiss ==
    [][/\ \A t \in Tasks :
            (/\ cache.enable_cache
             /\ th[t].pc = "awaiting" /\ th'[t].pc = "idle"
             /\ th'[t].exc = "")
            => GetKey(CallRequest(th[t].bundle)) \notin LiveKeys(files, now)
       /\ \A k \in LiveKeys(files, now) :
            /\ ContentAt(files', k).kind = "entry"
            /\ files'[k].data.response = files[k].data.response
            /\ files'[k].data.created_at = files[k].data.created_at
            /\ files'[k].data.access_count >= files[k].data.access_count]_vars

=============================================================================
